---- MODULE Spec2Model ----
(***************************************************************************)
(* Benchmark orchestration engine: BenchmarkManager (recipe loading and    *)
(* validation, run_benchmark, execute_post_actions), the Service wrapper   *)
(* and the executor backends it drives.                                    *)
(***************************************************************************)
EXTENDS Integers, Sequences, FiniteSets, TLC

\* ------------------------------------------------------------------ bounds
MaxDuration == 2
MaxPollInterval == 2
MaxRuns == 2
MaxUnits == 2

\* execution.poll_interval when the recipe gives none
DefaultPollInterval == 5

\* ------------------------------------------------------------ the recipe
RequiredSections ==
  {"meta", "global", "services", "clients", "monitors", "loggers",
   "execution", "reporting", "notifications", "cleanup"}

EntityIds == {"s1", "s2", "c1", "c2"}
ClientIds == {"c1", "c2"}
MonitorIds == {"m1", "m2", "m3"}

\* "" stands for an absent monitor/logger reference and for an absent command
NoRef == ""

\* the registered workload names
WORKLOAD_REGISTRY == {"s3-upload", "vllm-inference"}

Svc(id, type, mon, log, cmd, hc) ==
  [id |-> id, type |-> type, monitor |-> mon, logger |-> log, cmd |-> cmd,
   healthcheck |-> hc, workload_type |-> NoRef]

Cl(id, type, mon, log, cmd, wt) ==
  [id |-> id, type |-> type, monitor |-> mon, logger |-> log, cmd |-> cmd,
   healthcheck |-> FALSE, workload_type |-> wt]

\* services[] / clients[] of the recipes explored
Topologies ==
  { [services |-> << Svc("s1", "apptainer", "m1", "l1", "serve", FALSE),
                     Svc("s2", "slurm", "m1", NoRef, "serve", FALSE) >>,
     clients  |-> << Cl("c1", "process", NoRef, NoRef, "load", NoRef),
                     Cl("c2", "slurm", "m2", NoRef, "load", NoRef) >>],
    [services |-> << Svc("s1", "slurm", NoRef, "l1", "serve", TRUE) >>,
     clients  |-> << Cl("c1", "apptainer", NoRef, "l1", "load", NoRef) >>],
    [services |-> << Svc("s1", "apptainer", NoRef, NoRef, NoRef, FALSE) >>,
     clients  |-> << Cl("c1", "workload", "m3", "l1", NoRef, "bogus") >>] }

PostActionChoices ==
  { << >>,
    << "collect_metrics", "stop_services" >>,
    << "stop_services", "stop_services" >>,
    << "export_logs:l1", "stop_services" >>,
    << "notify", "export_logs:l9" >> }

MkRecipe(sec, topo, d, hp, p, pa) ==
  [sections |-> sec, services |-> topo.services, clients |-> topo.clients,
   monitors |-> MonitorIds, loggers |-> {"l1"},
   duration |-> d, has_poll_interval |-> hp, poll_interval |-> p,
   post_actions |-> pa]

ValidRecipes ==
  { MkRecipe(RequiredSections, t, d, TRUE, p, pa) :
      t \in Topologies, d \in 0..MaxDuration, p \in 1..MaxPollInterval,
      pa \in PostActionChoices }
  \cup
  { MkRecipe(RequiredSections, t, MaxDuration, FALSE, 0, << "stop_services" >>) :
      t \in Topologies }

\* recipes that validate_recipe (or load_recipe before it) rejects
InvalidRecipes ==
  LET t == CHOOSE x \in Topologies : Len(x.services) = 2
      pa == << "stop_services" >>
  IN { MkRecipe(RequiredSections \ {"cleanup"}, t, 1, TRUE, 1, pa),
       MkRecipe(RequiredSections \ {"global"}, t, 1, TRUE, 1, pa),
       MkRecipe(RequiredSections,
                [t EXCEPT !.services = << Svc("s1", "process", NoRef, NoRef, "serve", FALSE) >>],
                1, TRUE, 1, pa) }

Recipes == ValidRecipes \cup InvalidRecipes

NoRecipe == MkRecipe({}, [services |-> << >>, clients |-> << >>], 0, FALSE, 0, << >>)

\* ------------------------------------------------------- validate_recipe
DistinctIds(seq) == \A i, j \in 1..Len(seq) : seq[i].id = seq[j].id => i = j

\* "ok", or the ValueError the first failing check raises
validate_recipe(r) ==
  IF ~(RequiredSections \subseteq r.sections) THEN "ValueError"
  ELSE IF Len(r.services) = 0 THEN "ValueError"
  ELSE IF ~DistinctIds(r.services) THEN "ValueError"
  ELSE IF \E i \in 1..Len(r.services) : r.services[i].type \notin {"apptainer", "slurm"}
       THEN "ValueError"
  ELSE IF Len(r.clients) = 0 THEN "ValueError"
  ELSE IF ~DistinctIds(r.clients) THEN "ValueError"
  ELSE "ok"

\* load_recipe: self.recipe["global"] is read before validate_recipe runs
load_recipe(r) ==
  IF "global" \notin r.sections THEN "KeyError" ELSE validate_recipe(r)

\* ------------------------------------------------------------- executors
\* _create_executor: the executor class chosen for executor.type, "None" when
\* the type is not one of the three it knows
create_executor(type) ==
  IF type \in {"slurm", "apptainer", "process"} THEN type ELSE "None"

\* Executor state of one entity: unit is "none" (no handle / no job id),
\* "pending" (batch job queued), "live", "completing" (batch job draining) or
\* "exited" (handle kept, unit gone).
\* run: [raised, unit], fails = the submission / spawn command fails;
\* status: the string returned; stop: [raised, unit, signal], signal = a
\* termination signal or a scancel was issued.

SlurmExecutor_run(u, fails) ==
  IF fails THEN [raised |-> TRUE, unit |-> u]
  ELSE [raised |-> FALSE, unit |-> "pending"]

SlurmExecutor_status(u, queryFails) ==
  IF u = "none" THEN "no job"
  ELSE IF queryFails THEN "not found"
  ELSE IF u = "pending" THEN "PENDING"
  ELSE IF u = "live" THEN "RUNNING"
  ELSE IF u = "completing" THEN "COMPLETING" ELSE "COMPLETED"

SlurmExecutor_stop(u) ==
  IF u = "none" THEN [raised |-> FALSE, unit |-> u, signal |-> FALSE]
  ELSE [raised |-> FALSE, unit |-> "none", signal |-> TRUE]

ApptainerExecutor_run(u, fails) ==
  IF fails THEN [raised |-> TRUE, unit |-> u]
  ELSE [raised |-> FALSE, unit |-> "live"]

ApptainerExecutor_status(u) ==
  IF u = "none" THEN "no process"
  ELSE IF u = "live" THEN "running" ELSE "finished"

ApptainerExecutor_stop(u) ==
  [raised |-> FALSE, unit |-> "none", signal |-> (u = "live")]

ProcessExecutor_run(u) ==
  [raised |-> FALSE, unit |-> "live"]

ProcessExecutor_status(u) ==
  IF u = "none" THEN "not_started"
  ELSE IF u = "live" THEN "running" ELSE "finished (code=0)"

ProcessExecutor_stop(u) ==
  IF u = "none" THEN [raised |-> FALSE, unit |-> u, signal |-> FALSE]
  ELSE [raised |-> FALSE, unit |-> "none", signal |-> TRUE]

\* self.executor.run(command); an entity without executor raises AttributeError
executor_run(kind, u, fails) ==
  CASE kind = "slurm"     -> SlurmExecutor_run(u, fails)
    [] kind = "apptainer" -> ApptainerExecutor_run(u, fails)
    [] kind = "process"   -> ProcessExecutor_run(u)
    [] OTHER              -> [raised |-> TRUE, unit |-> u]

\* self.executor.status(); "EXC" when the call raises
executor_status(kind, u, queryFails) ==
  CASE kind = "slurm"     -> SlurmExecutor_status(u, queryFails)
    [] kind = "apptainer" -> ApptainerExecutor_status(u)
    [] kind = "process"   -> ProcessExecutor_status(u)
    [] OTHER              -> "EXC"

\* self.executor.stop()
executor_stop(kind, u) ==
  CASE kind = "slurm"     -> SlurmExecutor_stop(u)
    [] kind = "apptainer" -> ApptainerExecutor_stop(u)
    [] kind = "process"   -> ProcessExecutor_stop(u)
    [] OTHER              -> [raised |-> TRUE, unit |-> u, signal |-> FALSE]

\* ----------------------------------------------------------------- state
VARIABLES
  recipe,       \* self.recipe (NoRecipe: None)
  loaded,       \* self.recipe is not None
  loadResult,   \* how the last load_recipe ended: "none", "ok", "ValueError", "KeyError"
  healthDown,   \* the health-check URL of the gated service never answers as expected
  pc,           \* where run_benchmark stands
  idx,          \* index of the next service / client / post-action
  runs,         \* run_benchmark calls that went past the recipe check
  exKind,       \* executor class of each entity object ("absent": no object)
  unit,         \* executor state of each entity
  monActive,    \* monitor -> _active
  elapsed,      \* time.time() - start_time
  exitReason,   \* how the poll loop was left: "none", "early", "duration"
  observed,     \* client -> status seen in the last poll iteration
  liveAtExit,   \* clients not in a terminal status when the poll loop was left
  startInvoked, \* ids in the order Service.start was invoked, this run
  startErr,     \* ids whose Service.start raised, this run
  launched,     \* ids whose executor.run started a unit, this run
  execLog,      \* post-actions executed, this run
  stopRound,    \* stop_services actions executed, this run
  stopInvoked,  \* ids on which Service.stop was invoked by the last stop_services
  stopFailed,   \* ids whose stop raised or whose executor.stop failed, last stop_services
  signalled,    \* ids whose unit was sent a termination / cancellation, last stop_services
  collects,     \* monitor -> collect() calls of the last collect_metrics
  startCalls,   \* collaborator calls made by the last Service.start, in order
  stopCalls     \* collaborator calls made by the last stop_services, in order

\* one executor instance driven directly through run / stop / status
VARIABLES
  backend,      \* its class: "process", "apptainer", "slurm", "workload" ("none": no instance)
  handle,       \* self.process / self._proc / self.job_id / self._thread: unit tracked, 0 for None
  spawned,      \* state of every unit the instance launched (OS process, job, worker thread)
  wstatus,      \* WorkloadExecutor._status
  stop_event,   \* WorkloadExecutor._stop_event is set
  everRun,      \* run was called on the instance
  last,         \* what the last call did
  logger_attached, \* ProcessExecutor.logger is not None
  readers,      \* streams of the process launched last whose _stream_reader thread runs
  pipe,         \* stream -> lines waiting in the OS pipe of the process launched last
  blocked       \* stream the process launched last is blocked writing to ("none": not blocked)

\* one Server or Client object driven directly through start_service /
\* start_workload
VARIABLES
  entity,       \* the object: its class and the arguments of its constructor
  outcome       \* what the last start_service / start_workload did

\* one invocation of a workload routine: run(config, logger, stop_event)
VARIABLES
  cfg,          \* the routine and its config
  runpc,        \* where run() stands: "idle", "workers", "joining", "aggregating", "returned"
  wpc,          \* where each worker_task stands: "absent", "top", "request", "get", "backoff", "done"
  iter,         \* each worker's i
  cons,         \* each worker's consecutive_errors
  seen,         \* each worker's seen_errors
  why,          \* the condition each worker left its loop by
  local,        \* each s3 worker's local_upload_latencies and count of download latencies
  stats,        \* shared_stats
  cancel,       \* stop_event: "clear", or who set it
  clock,        \* seconds since run() started the workers
  rpc,          \* where periodic_reporter stands: "idle", "waiting", "checked", "done"
  reporter_stop,\* reporter_stop is set
  nReports,     \* interval reports made
  reported,     \* samples that were part of an interval report
  dupReport,    \* some sample was part of two interval reports
  failed,       \* error kind -> network operations that failed with it
  owed,         \* worker's last network operation failed and no back-off sleep followed yet
  logged,       \* worker -> error kind -> log lines written for it
  streak,       \* each worker's number of failed requests since its last success
  final         \* what run() reported at its end

\* one call of a statistics function on a latency list
VARIABLES
  statsFn,      \* the function: "s3", "vllm" (calc_stats_metrics), "reporter" ("none": no call)
  lats,         \* the list it is given
  metrics       \* what it returned

vars ==
  << recipe, loaded, loadResult, healthDown, pc, idx, runs, exKind, unit,
     monActive, elapsed, exitReason, observed, liveAtExit, startInvoked,
     startErr, launched, execLog, stopRound, stopInvoked, stopFailed,
     signalled, collects, startCalls, stopCalls, backend, handle, spawned, wstatus,
     stop_event, everRun, last, logger_attached, readers, pipe, blocked,
     entity, outcome, cfg, runpc, wpc, iter, cons, seen,
     why, local, stats, cancel, clock, rpc, reporter_stop, nReports, reported,
     dupReport, failed, owed, logged, streak, final, statsFn, lats, metrics >>

mgrVars == << recipe, loaded, loadResult, healthDown >>
objVars == << exKind, unit, monActive >>
pollVars == << elapsed, exitReason, observed, liveAtExit >>
startVars == << startInvoked, startErr, launched, startCalls >>
postVars == << execLog, stopRound, stopInvoked, stopFailed, signalled, collects, stopCalls >>
pipeVars == << logger_attached, readers, pipe, blocked >>
execVars == << backend, handle, spawned, wstatus, stop_event, everRun, last, pipeVars >>
managerVars == << mgrVars, pc, idx, runs, objVars, pollVars, startVars, postVars >>
entityVars == << entity, outcome >>

\* what the actions on the manager, on the executor instance and on the
\* Server / Client object leave alone
workerVars == << wpc, iter, cons, seen, why, local >>
reporterVars == << rpc, reporter_stop, nReports, reported, dupReport >>
errorVars == << failed, owed, logged, streak >>
engineVars ==
  << cfg, runpc, workerVars, stats, cancel, clock, reporterVars, errorVars, final >>

statsVars == << statsFn, lats, metrics >>

offManager == << execVars, entityVars, engineVars, statsVars >>
offExec == << managerVars, entityVars, engineVars, statsVars >>
offEntity == << managerVars, execVars, engineVars, statsVars >>
offEngine == << managerVars, execVars, entityVars, statsVars >>
offStats == << managerVars, execVars, entityVars, engineVars >>

NoMetrics == [done |-> FALSE, raised |-> FALSE, total |-> 0, stdev_defined |-> FALSE,
              p95 |-> 0, p99 |-> 0]

\* --- bounds and values of one workload invocation
\* largest "requests" / "objects"
MaxRequests == 2
\* largest duration_sec, and the last second the clock reaches
MaxSeconds == 1
\* largest max_consecutive_errors
MaxThreshold == 2
\* iterations a worker without reachable limit is followed for
MaxAttempts == 2
\* interval reports followed
MaxReports == 2
\* largest latency of a request
MaxLatency == 2

Workers == {1, 2}
\* stdout=subprocess.PIPE, stderr=subprocess.PIPE
Streams == {"stdout", "stderr"}
Lats == 1..MaxLatency
Routines == {"s3-upload", "vllm-inference"}
ErrorKinds == {"HTTP_500", "Timeout"}

NoConfig ==
  [routine |-> NoRef, concurrency |-> 0, count |-> 0, duration_sec |-> 0,
   max_consecutive_errors |-> 0, endpoint |-> FALSE]
NoLocal == [up |-> << >>, down |-> 0]
NoStats ==
  [latencies |-> << >>, downloads |-> 0, failures |-> 0, total_requests |-> 0,
   error_breakdown |-> [k \in ErrorKinds |-> 0],
   snap_requests |-> 0, snap_len |-> 0]
NoFinal == [completed |-> 0, attempts |-> 0, failures |-> 0, joined |-> TRUE]

\* no Server / Client object constructed; no start made on it
NoEntity ==
  [class |-> "none", id |-> NoRef, monitor |-> NoRef, logger |-> NoRef, kind |-> "None",
   command |-> [kind |-> "none", text |-> << >>, hasCmd |-> FALSE, cmd |-> << >>],
   executor_type |-> NoRef,
   workload |-> [kind |-> "none", hasType |-> FALSE, hasCmd |-> FALSE, cmd |-> << >>]]

NoOutcome ==
  [op |-> "none", error |-> "none", payload |-> "none", calls |-> << >>,
   unit |-> "none", monActive |-> [m \in MonitorIds |-> FALSE]]

\* the record of a call: what it raised or returned, the signals, waits and
\* launches it made in order, the state it found, how long it waited for the
\* unit and whether the unit ended within that wait
NoPayload == [isDict |-> FALSE, type |-> NoRef]

NoCall ==
  [op |-> "none", raised |-> FALSE, ret |-> "", events |-> << >>,
   handleBefore |-> 0, liveBefore |-> {}, queryFailed |-> FALSE,
   waited |-> 0, returned |-> TRUE, ended |-> FALSE, payload |-> NoPayload]

HasLogger(r, e) == e.logger \in r.loggers
HasMonitor(r, e) == e.monitor \in r.monitors
Entities(r) == r.services \o r.clients
IdsOf(seq) == { seq[i].id : i \in 1..Len(seq) }

Init ==
  /\ recipe = NoRecipe
  /\ loaded = FALSE
  /\ loadResult = "none"
  /\ healthDown = FALSE
  /\ pc = "idle"
  /\ idx = 1
  /\ runs = 0
  /\ exKind = [e \in EntityIds |-> "absent"]
  /\ unit = [e \in EntityIds |-> "none"]
  /\ monActive = [m \in MonitorIds |-> FALSE]
  /\ elapsed = 0
  /\ exitReason = "none"
  /\ observed = [c \in ClientIds |-> "absent"]
  /\ liveAtExit = {}
  /\ startInvoked = << >>
  /\ startErr = {}
  /\ launched = {}
  /\ execLog = << >>
  /\ stopRound = 0
  /\ stopInvoked = {}
  /\ stopFailed = {}
  /\ signalled = {}
  /\ collects = [m \in MonitorIds |-> 0]
  /\ startCalls = << >>
  /\ stopCalls = << >>
  /\ backend = "none"
  /\ handle = 0
  /\ spawned = [k \in 1..MaxUnits |-> "unborn"]
  /\ wstatus = "not_started"
  /\ stop_event = FALSE
  /\ everRun = FALSE
  /\ last = NoCall
  /\ logger_attached = FALSE
  /\ readers = {}
  /\ pipe = [s \in Streams |-> 0]
  /\ blocked = "none"
  /\ entity = NoEntity
  /\ outcome = NoOutcome
  /\ cfg = NoConfig
  /\ runpc = "idle"
  /\ wpc = [w \in Workers |-> "absent"]
  /\ iter = [w \in Workers |-> 0]
  /\ cons = [w \in Workers |-> 0]
  /\ seen = [w \in Workers |-> {}]
  /\ why = [w \in Workers |-> "none"]
  /\ local = [w \in Workers |-> NoLocal]
  /\ stats = NoStats
  /\ cancel = "clear"
  /\ clock = 0
  /\ rpc = "idle"
  /\ reporter_stop = FALSE
  /\ nReports = 0
  /\ reported = {}
  /\ dupReport = FALSE
  /\ failed = [k \in ErrorKinds |-> 0]
  /\ owed = [w \in Workers |-> FALSE]
  /\ logged = [w \in Workers |-> [k \in ErrorKinds |-> 0]]
  /\ streak = [w \in Workers |-> 0]
  /\ final = NoFinal
  /\ statsFn = "none"
  /\ lats = << >>
  /\ metrics = NoMetrics

\* load_recipe(path) on a fresh manager; the recipe stays assigned when
\* validation raises
LoadRecipe ==
  /\ ~loaded
  /\ pc = "idle"
  /\ \E r \in Recipes, hd \in BOOLEAN :
       /\ hd => \E i \in 1..Len(r.services) : r.services[i].healthcheck
       /\ recipe' = r
       /\ loaded' = TRUE
       /\ loadResult' = load_recipe(r)
       /\ healthDown' = hd
  /\ UNCHANGED << pc, idx, runs, objVars, pollVars, startVars, postVars, offManager >>

\* ---------------------------------------------------------------- Service
\* A logger.log call may raise (FileLogger.log enters self._lock, which its
\* __init__ never creates; a logger double used by the test does not raise):
\* each call's outcome is left open.
\* Service.start(command): out is what the environment does to this call
\* ("log_raises": the first logger.log raises, "run_raises": the backend
\* command fails, "late_log_raises": the closing logger.log raises)
\* a start that launches the unit before its monitor is started
start_run_before_monitor(r, e, kind, out, u, mon) ==
  LET c0 == IF HasLogger(r, e) THEN << "log:starting" >> ELSE << >>
  IN IF HasLogger(r, e) /\ out = "log_raises"
     THEN [raised |-> TRUE, unit |-> u, monActive |-> mon, ran |-> FALSE, calls |-> c0]
     ELSE LET run == executor_run(kind, u, out = "run_raises")
              c1 == IF kind = "None" THEN c0 ELSE Append(c0, "executor.run")
              mon1 == IF HasMonitor(r, e) THEN [mon EXCEPT ![e.monitor] = TRUE] ELSE mon
              c2 == IF HasMonitor(r, e) THEN Append(c1, "monitor.start") ELSE c1
          IN IF run.raised
             THEN [raised |-> TRUE, unit |-> u, monActive |-> mon, ran |-> FALSE,
                   calls |-> c1]
             ELSE [raised |-> HasLogger(r, e) /\ out = "late_log_raises",
                   unit |-> run.unit, monActive |-> mon1, ran |-> TRUE,
                   calls |-> IF HasLogger(r, e) THEN Append(c2, "log:started") ELSE c2]

\* calls: the collaborator calls made, in order (executor.run on an entity
\* without executor fails before any call is made)
Service_start(r, e, kind, out, u, mon) ==
  LET c0 == IF HasLogger(r, e) THEN << "log:starting" >> ELSE << >>
  IN IF HasLogger(r, e) /\ out = "log_raises"
     THEN [raised |-> TRUE, unit |-> u, monActive |-> mon, ran |-> FALSE, calls |-> c0]
     ELSE LET mon1 == IF HasMonitor(r, e) THEN [mon EXCEPT ![e.monitor] = TRUE] ELSE mon
              c1 == IF HasMonitor(r, e) THEN Append(c0, "monitor.start") ELSE c0
              run == executor_run(kind, u, out = "run_raises")
              c2 == IF kind = "None" THEN c1 ELSE Append(c1, "executor.run")
          IN IF run.raised
             THEN [raised |-> TRUE, unit |-> u, monActive |-> mon1, ran |-> FALSE,
                   calls |-> c2]
             ELSE [raised |-> HasLogger(r, e) /\ out = "late_log_raises",
                   unit |-> run.unit, monActive |-> mon1, ran |-> TRUE,
                   calls |-> IF HasLogger(r, e) THEN Append(c2, "log:started") ELSE c2]

StartOutcomes(r, e, kind) ==
  {"ok"}
  \cup (IF HasLogger(r, e) THEN {"log_raises", "late_log_raises"} ELSE {})
  \cup (IF kind \in {"slurm", "apptainer"} THEN {"run_raises"} ELSE {})

\* Service.status(): the executor's status, "EXC" when the call raises
Service_status(r, e, kind, u, out) ==
  LET st == executor_status(kind, u, out = "query_fails")
  IN IF st = "EXC" THEN "EXC"
     ELSE IF HasLogger(r, e) /\ out = "log_raises" THEN "EXC"
     ELSE st

StatusOutcomes(r, e, kind, u) ==
  {"ok"}
  \cup (IF HasLogger(r, e) THEN {"log_raises"} ELSE {})
  \cup (IF kind = "slurm" /\ u # "none" THEN {"query_fails"} ELSE {})

\* the entry of st.calls for the statement self.executor.stop() and its outcome
StopCall(raised) == IF raised THEN "executor.stop:raised" ELSE "executor.stop"

\* a stop whose executor.stop() is not wrapped in try/except
stop_without_try(r, e, kind, out, st) ==
  LET inv == [st EXCEPT !.stopInvoked = @ \cup {e.id},
                        !.calls = IF HasLogger(r, e)
                                  THEN Append(@, << e.id, "log:stopping" >>) ELSE @]
  IN IF HasLogger(r, e) /\ out = "log_raises"
     THEN [inv EXCEPT !.raised = TRUE]
     ELSE LET x == executor_stop(kind, st.unit[e.id])
              s1 == [inv EXCEPT !.unit[e.id] = x.unit,
                                !.signalled = IF x.signal THEN @ \cup {e.id} ELSE @,
                                !.stopFailed = IF x.raised THEN @ \cup {e.id} ELSE @,
                                !.calls = Append(@, << e.id, StopCall(x.raised) >>)]
          IN IF x.raised
             THEN [s1 EXCEPT !.raised = TRUE]
             ELSE IF HasMonitor(r, e)
             THEN [s1 EXCEPT !.monActive[e.monitor] = FALSE,
                             !.calls = Append(@, << e.id, "monitor.stop" >>)]
             ELSE s1

\* Service.stop() on the teardown state st; st.raised: the call raised;
\* st.calls: the collaborator calls made, in order, each with the entity's id
Service_stop(r, e, kind, out, st) ==
  LET inv == [st EXCEPT !.stopInvoked = @ \cup {e.id},
                        !.calls = IF HasLogger(r, e)
                                  THEN Append(@, << e.id, "log:stopping" >>) ELSE @]
  IN IF HasLogger(r, e) /\ out = "log_raises"
     THEN [inv EXCEPT !.raised = TRUE]
     ELSE LET x == executor_stop(kind, st.unit[e.id])
              s1 == [inv EXCEPT !.unit[e.id] = x.unit,
                                !.signalled = IF x.signal THEN @ \cup {e.id} ELSE @,
                                !.stopFailed = IF x.raised THEN @ \cup {e.id} ELSE @,
                                !.calls = Append(@, << e.id, StopCall(x.raised) >>)]
          IN IF HasMonitor(r, e)
             THEN [s1 EXCEPT !.monActive[e.monitor] = FALSE,
                             !.calls = Append(@, << e.id, "monitor.stop" >>)]
             ELSE s1

StopOutcomes(r, e) ==
  {"ok"} \cup (IF HasLogger(r, e) THEN {"log_raises"} ELSE {})

\* ------------------------------------------------- execute_post_actions
\* the stop_services branch without its try/except: a raise leaves the loops
unguarded_stop(r, e, kind, out, st) ==
  Service_stop(r, e, kind, out, st)

\* one "try: s.stop() / except Exception: print" of the stop_services branch
guarded_stop(r, e, kind, out, st) ==
  LET s1 == Service_stop(r, e, kind, out, st)
  IN IF s1.raised
     THEN [s1 EXCEPT !.raised = FALSE, !.stopFailed = @ \cup {e.id}]
     ELSE s1

\* the two for-loops of the stop_services branch: services, then clients
RECURSIVE stop_loop(_, _, _, _, _, _)
stop_loop(r, ents, i, kinds, outs, st) ==
  IF i > Len(ents) \/ st.raised THEN st
  ELSE stop_loop(r, ents, i + 1, kinds, outs,
                 guarded_stop(r, ents[i], kinds[ents[i].id], outs[ents[i].id], st))

\* the collect_metrics branch: collect() calls each monitor receives
collect_loop(r) ==
  [m \in MonitorIds |->
     Cardinality({ i \in 1..Len(r.services) :
                     HasMonitor(r, r.services[i]) /\ r.services[i].monitor = m })]

IsExport(a) == a \in {"export_logs:l1", "export_logs:l9"}
ExportTarget(a) == IF a = "export_logs:l1" THEN "l1" ELSE "l9"

\* --------------------------------------------------------- run_benchmark
RunEnded == pc \in {"idle", "done", "raised"}

\* lines 516-528: the recipe check, then monitors and loggers are built and
\* every monitor of the map is started
Provision ==
  /\ RunEnded
  /\ runs < MaxRuns
  /\ IF ~loaded
     THEN UNCHANGED vars
     ELSE /\ pc' = "provisioned"
          /\ runs' = runs + 1
          /\ idx' = 1
          /\ monActive' = [m \in MonitorIds |-> m \in recipe.monitors]
          /\ elapsed' = 0
          /\ exitReason' = "none"
          /\ observed' = [c \in ClientIds |-> "absent"]
          /\ liveAtExit' = {}
          /\ startInvoked' = << >>
          /\ startErr' = {}
          /\ launched' = {}
          /\ startCalls' = << >>
          /\ execLog' = << >>
          /\ stopRound' = 0
          /\ stopInvoked' = {}
          /\ stopFailed' = {}
          /\ signalled' = {}
          /\ collects' = [m \in MonitorIds |-> 0]
          /\ stopCalls' = << >>
          /\ UNCHANGED << mgrVars, exKind, unit, offManager >>

AfterBuild(r) ==
  IF Len(r.services) > 0 THEN "services"
  ELSE IF Len(r.clients) > 0 THEN "clients" ELSE "poll"

\* a build that makes the services' objects only
build_services_only(r) ==
  [e \in EntityIds |->
     IF \E i \in 1..Len(r.services) : r.services[i].id = e
     THEN create_executor(
            (CHOOSE x \in { r.services[i] : i \in 1..Len(r.services) } : x.id = e).type)
     ELSE "absent"]

\* lines 530-556: _services_objs and _clients_objs, one Service object with a
\* new executor under every service id and every client id of the recipe
build_objects(r) ==
  [e \in EntityIds |->
     IF \E i \in 1..Len(Entities(r)) : Entities(r)[i].id = e
     THEN create_executor(
            (CHOOSE x \in { Entities(r)[i] : i \in 1..Len(Entities(r)) } : x.id = e).type)
     ELSE "absent"]

BuildObjects ==
  /\ pc = "provisioned"
  /\ exKind' = build_objects(recipe)
  /\ unit' = [e \in EntityIds |-> "none"]
  /\ pc' = AfterBuild(recipe)
  /\ idx' = 1
  /\ UNCHANGED << offManager, mgrVars, runs, monActive, pollVars, startVars, postVars >>

\* launch_service / launch_client: Service.start inside try/except
Launch(e, out) ==
  LET res == Service_start(recipe, e, exKind[e.id], out, unit[e.id], monActive)
  IN /\ unit' = [unit EXCEPT ![e.id] = res.unit]
     /\ monActive' = res.monActive
     /\ startInvoked' = Append(startInvoked, e.id)
     /\ startErr' = IF res.raised THEN startErr \cup {e.id} ELSE startErr
     /\ launched' = IF res.ran THEN launched \cup {e.id} ELSE launched
     /\ startCalls' = res.calls

\* lines 558-562
LaunchService ==
  /\ pc = "services"
  /\ idx <= Len(recipe.services)
  /\ \E out \in StartOutcomes(recipe, recipe.services[idx], exKind[recipe.services[idx].id]) :
       Launch(recipe.services[idx], out)
  /\ IF idx < Len(recipe.services)
     THEN /\ idx' = idx + 1
          /\ pc' = pc
     ELSE /\ idx' = 1
          /\ pc' = IF Len(recipe.clients) > 0 THEN "clients" ELSE "poll"
  /\ UNCHANGED << offManager, mgrVars, runs, exKind, pollVars, postVars >>

\* lines 564-569, and line 575 after the last client
LaunchClient ==
  /\ pc = "clients"
  /\ idx <= Len(recipe.clients)
  /\ \E out \in StartOutcomes(recipe, recipe.clients[idx], exKind[recipe.clients[idx].id]) :
       Launch(recipe.clients[idx], out)
  /\ IF idx < Len(recipe.clients)
     THEN /\ idx' = idx + 1
          /\ pc' = pc
     ELSE /\ idx' = 1
          /\ pc' = "poll"
  /\ UNCHANGED << offManager, mgrVars, runs, exKind, pollVars, postVars >>

\* the launched units live their own life: a queued job starts, a process
\* exits (the manager reads no unit before the poll loop, so their steps are
\* taken from there on)
UnitAdvances ==
  /\ pc = "poll"
  /\ \E e \in EntityIds :
       /\ unit[e] \in {"pending", "live", "completing"}
       /\ unit' = [unit EXCEPT ![e] =
                     IF exKind[e] = "slurm"
                     THEN (CASE unit[e] = "pending" -> "live"
                             [] unit[e] = "live" -> "completing"
                             [] OTHER -> "exited")
                     ELSE "exited"]
  /\ UNCHANGED << offManager, mgrVars, pc, idx, runs, exKind, monActive, pollVars, startVars, postVars >>

\* ------------------------------------------------------------ poll loop
PollInterval(r) ==
  IF r.has_poll_interval THEN r.poll_interval ELSE DefaultPollInterval

\* line 581: the statuses that keep the loop alive; line 584: so does a raise
KeepsAlive(st) == st \in {"running", "RUNNING", "PENDING", "UNKNOWN"} \/ st = "EXC"

ClientIndex(r, c) == CHOOSE i \in 1..Len(r.clients) : r.clients[i].id = c

\* lines 577-586: the statuses one iteration reads; the for-loop breaks at the
\* first client that keeps the loop alive
poll_clients(r, kinds, units, outs) ==
  LET st(i) == Service_status(r, r.clients[i], kinds[r.clients[i].id],
                              units[r.clients[i].id], outs[r.clients[i].id])
  IN [c \in ClientIds |->
        IF c \notin IdsOf(r.clients) THEN "absent"
        ELSE IF \E j \in 1..(ClientIndex(r, c) - 1) : KeepsAlive(st(j)) THEN "unpolled"
        ELSE st(ClientIndex(r, c))]

all_done(obs) == \A c \in ClientIds : ~KeepsAlive(obs[c])

\* finished / failed / stopped, in each backend's vocabulary
TerminalStatuses ==
  {"finished", "failed", "stopped", "finished (code=0)", "COMPLETED", "FAILED", "CANCELLED"}

NotTerminalNow(r, kinds, units) ==
  { c \in IdsOf(r.clients) :
      executor_status(kinds[c], units[c], FALSE) \notin TerminalStatuses }

\* lines 576-590: one test of the loop condition and, if it holds, one iteration
PollIteration ==
  /\ pc = "poll"
  /\ IF elapsed >= recipe.duration
     THEN /\ exitReason' = "duration"
          /\ liveAtExit' = NotTerminalNow(recipe, exKind, unit)
          /\ pc' = "post"
          /\ UNCHANGED << elapsed, observed >>
     ELSE \E outs \in [ClientIds -> {"ok", "log_raises", "query_fails"}] :
            /\ \A c \in ClientIds :
                 IF c \in IdsOf(recipe.clients)
                 THEN outs[c] \in StatusOutcomes(recipe, recipe.clients[ClientIndex(recipe, c)],
                                                 exKind[c], unit[c])
                 ELSE outs[c] = "ok"
            /\ observed' = poll_clients(recipe, exKind, unit, outs)
            /\ IF all_done(observed')
               THEN /\ exitReason' = "early"
                    /\ liveAtExit' = NotTerminalNow(recipe, exKind, unit)
                    /\ pc' = "post"
                    /\ elapsed' = elapsed
               ELSE /\ elapsed' = elapsed + PollInterval(recipe)
                    /\ UNCHANGED << exitReason, liveAtExit, pc >>
  /\ UNCHANGED << offManager, mgrVars, idx, runs, objVars, startVars, postVars >>

\* ---------------------------------------------------------- post-actions
Teardown ==
  [unit |-> unit, monActive |-> monActive, stopInvoked |-> {}, stopFailed |-> {},
   signalled |-> {}, raised |-> FALSE, calls |-> << >>]

\* lines 482-514: one iteration of "for action in actions"
PostAction ==
  /\ pc = "post"
  /\ idx <= Len(recipe.post_actions)
  /\ LET a == recipe.post_actions[idx]
     IN /\ execLog' = Append(execLog, a)
        /\ idx' = idx + 1
        /\ IF a = "collect_metrics"
           THEN /\ collects' = collect_loop(recipe)
                /\ UNCHANGED << pc, unit, monActive, stopRound, stopInvoked, stopFailed,
                                signalled, stopCalls >>
           ELSE IF a = "stop_services"
           THEN \E outs \in [EntityIds -> {"ok", "log_raises"}] :
                  /\ \A i \in 1..Len(Entities(recipe)) :
                       outs[Entities(recipe)[i].id] \in StopOutcomes(recipe, Entities(recipe)[i])
                  /\ \A e \in EntityIds \ IdsOf(Entities(recipe)) : outs[e] = "ok"
                  /\ LET st == stop_loop(recipe, Entities(recipe), 1, exKind, outs, Teardown)
                     IN /\ unit' = st.unit
                        /\ monActive' = st.monActive
                        /\ stopInvoked' = st.stopInvoked
                        /\ stopCalls' = st.calls
                        /\ stopFailed' = st.stopFailed
                        /\ signalled' = st.signalled
                        /\ stopRound' = stopRound + 1
                        /\ pc' = IF st.raised THEN "raised" ELSE pc
                        /\ UNCHANGED collects
           ELSE IF IsExport(a) /\ ExportTarget(a) \in recipe.loggers
           \* lines 508-510: export() is called outside any try; it raises
           \* when the logger's log() does
           THEN \E exportRaises \in BOOLEAN :
                  /\ pc' = IF exportRaises THEN "raised" ELSE pc
                  /\ UNCHANGED << unit, monActive, stopRound, stopInvoked, stopFailed,
                                  signalled, collects, stopCalls >>
           ELSE UNCHANGED << pc, unit, monActive, stopRound, stopInvoked, stopFailed,
                             signalled, collects, stopCalls >>
  /\ UNCHANGED << offManager, mgrVars, runs, exKind, pollVars, startVars >>

\* line 596: run_benchmark returns
FinishRun ==
  /\ pc = "post"
  /\ idx > Len(recipe.post_actions)
  /\ pc' = "done"
  /\ UNCHANGED << offManager, mgrVars, idx, runs, objVars, pollVars, startVars, postVars >>

Next ==
  \/ LoadRecipe
  \/ Provision
  \/ BuildObjects
  \/ LaunchService
  \/ LaunchClient
  \/ UnitAdvances
  \/ PollIteration
  \/ PostAction
  \/ FinishRun

Spec == Init /\ [][Next]_vars

\* ==================================================== one executor instance
\* run, stop and status called in any order on one instance of one backend,
\* while the units it launched live their own life.
Backends == {"process", "apptainer", "slurm", "workload"}

\* wait(timeout=5) / join(timeout=5)
GraceSeconds == 5

\* seconds a unit takes to end once it is sent SIGTERM or the stop event is set
ExitDelays == {0, 3, 8}

\* the four constructors
Construct ==
  /\ backend = "none"
  /\ pc = "idle"
  /\ ~loaded
  /\ \E b \in Backends : backend' = b
  /\ handle' = 0
  /\ spawned' = [k \in 1..MaxUnits |-> "unborn"]
  /\ wstatus' = "not_started"
  /\ stop_event' = FALSE
  /\ everRun' = FALSE
  /\ last' = NoCall
  /\ UNCHANGED pipeVars
  /\ UNCHANGED offExec

\* the state of the unit the instance tracks, "none" when it tracks none
HandleUnit == IF handle = 0 THEN "none" ELSE spawned[handle]
LiveUnits == { k \in 1..MaxUnits : spawned[k] \in {"pending", "live", "completing"} }
CanLaunch == \E k \in 1..MaxUnits : spawned[k] = "unborn"
NextUnit == CHOOSE k \in 1..MaxUnits :
              spawned[k] = "unborn" /\ \A j \in 1..(k - 1) : spawned[j] # "unborn"

Ev(what, k) == [ev |-> what, to |-> k]

Call(op, raised, ret, events) ==
  [op |-> op, raised |-> raised, ret |-> ret, events |-> events,
   handleBefore |-> handle, liveBefore |-> LiveUnits, queryFailed |-> FALSE,
   waited |-> 0, returned |-> TRUE, ended |-> FALSE, payload |-> NoPayload]

\* a wait without timeout: it lasts until the unit ends
unbounded_wait(alive, t) ==
  IF ~alive THEN [returned |-> TRUE, waited |-> 0, ended |-> TRUE]
  ELSE [returned |-> TRUE, waited |-> t, ended |-> TRUE]

\* wait(timeout=5) / join(timeout=5) on a unit that ends t seconds from now:
\* the call returns (or its TimeoutExpired is swallowed) after at most the grace
bounded_wait(alive, t) ==
  IF ~alive THEN [returned |-> TRUE, waited |-> 0, ended |-> TRUE]
  ELSE IF t <= GraceSeconds THEN [returned |-> TRUE, waited |-> t, ended |-> TRUE]
  ELSE [returned |-> TRUE, waited |-> GraceSeconds, ended |-> FALSE]

\* --- ProcessExecutor
\* lines an OS pipe holds before a write to it blocks
PipeCapacity == 1

\* the process launched last, 0 when none was launched
Piped == IF spawned[1] = "unborn" THEN 0
         ELSE CHOOSE k \in 1..MaxUnits :
                spawned[k] # "unborn" /\ \A j \in (k + 1)..MaxUnits : spawned[j] = "unborn"

\* the reader threads run() starts: one per stream, and only "if self.logger"
reader_threads(attached) == IF attached THEN Streams ELSE {}

\* stop(): SIGTERM to the process group, wait(timeout=5), handle dropped
ProcessExecutor_stop_steps(t) ==
  LET x == ProcessExecutor_stop(HandleUnit)
      w == bounded_wait(HandleUnit = "live", t)
  IN [events |-> IF x.signal THEN << Ev("SIGTERM", handle), Ev("wait", handle) >> ELSE << >>,
      handle |-> IF x.unit = "none" THEN 0 ELSE handle,
      spawned |-> IF x.signal /\ w.ended THEN [spawned EXCEPT ![handle] = "exited"] ELSE spawned,
      waited |-> IF x.signal THEN w.waited ELSE 0,
      returned |-> w.returned,
      ended |-> x.signal /\ w.ended]

ProcessRun ==
  /\ backend = "process"
  /\ \E isStr \in BOOLEAN, t \in ExitDelays :
       IF ~isStr
       THEN /\ last' = Call("run", TRUE, "", << >>)
            /\ UNCHANGED << handle, spawned, readers, pipe, blocked >>
       ELSE /\ CanLaunch
            /\ LET st == IF HandleUnit = "live" THEN ProcessExecutor_stop_steps(t)
                         ELSE [events |-> << >>, handle |-> handle, spawned |-> spawned,
                               waited |-> 0, returned |-> TRUE, ended |-> FALSE]
                   run == ProcessExecutor_run(HandleUnit)
               IN /\ handle' = NextUnit
                  /\ spawned' = [st.spawned EXCEPT ![NextUnit] = run.unit]
                  /\ last' = [Call("run", run.raised, "", Append(st.events, Ev("spawn", NextUnit)))
                                EXCEPT !.waited = st.waited, !.ended = st.ended]
            /\ readers' = reader_threads(logger_attached)
            /\ pipe' = [s \in Streams |-> 0]
            /\ blocked' = "none"
  /\ everRun' = TRUE
  /\ UNCHANGED << wstatus, stop_event, logger_attached >>
  /\ UNCHANGED << backend, offExec >>

ProcessStop ==
  /\ backend = "process"
  /\ \E t \in ExitDelays :
       LET st == ProcessExecutor_stop_steps(t)
       IN /\ handle' = st.handle
          /\ spawned' = st.spawned
          /\ last' = [Call("stop", FALSE, "", st.events)
                        EXCEPT !.waited = st.waited, !.returned = st.returned,
                               !.ended = st.ended]
          /\ blocked' = IF st.ended /\ handle = Piped THEN "none" ELSE blocked
  /\ UNCHANGED << wstatus, stop_event, everRun, logger_attached, readers, pipe >>
  /\ UNCHANGED << backend, offExec >>

\* attach_logger(logger)
AttachLogger ==
  /\ backend = "process"
  /\ ~logger_attached
  /\ logger_attached' = TRUE
  /\ UNCHANGED << handle, spawned, wstatus, stop_event, everRun, last, readers, pipe, blocked >>
  /\ UNCHANGED << backend, offExec >>

\* the process launched last writes a line to one of its streams: the line
\* enters the pipe, or the pipe is full and the write blocks until a reader
\* takes a line out
ProcessWrites ==
  /\ backend = "process"
  /\ Piped # 0
  /\ spawned[Piped] = "live"
  /\ blocked = "none"
  /\ \E s \in Streams :
       IF pipe[s] < PipeCapacity
       THEN pipe' = [pipe EXCEPT ![s] = @ + 1] /\ UNCHANGED blocked
       ELSE blocked' = s /\ UNCHANGED pipe
  /\ UNCHANGED << handle, spawned, wstatus, stop_event, everRun, last, logger_attached, readers >>
  /\ UNCHANGED << backend, offExec >>

\* _stream_reader: readline() returns a line and the line goes to logger.log
\* with the prefix of the stream; a logger.log that raises ends the thread
ReaderForwards ==
  /\ backend = "process"
  /\ \E s \in readers, raises \in BOOLEAN :
       /\ pipe[s] > 0
       /\ pipe' = [pipe EXCEPT ![s] = @ - 1]
       /\ blocked' = IF blocked = s THEN "none" ELSE blocked
       /\ readers' = IF raises THEN readers \ {s} ELSE readers
  /\ UNCHANGED << handle, spawned, wstatus, stop_event, everRun, last, logger_attached >>
  /\ UNCHANGED << backend, offExec >>

\* --- ApptainerExecutor
\* a stop() that kills without regard to the wait
stop_signals_always_kill(u, t) ==
  IF u # "live" THEN << >> ELSE << "SIGTERM", "wait", "SIGKILL" >>

\* the signals stop() sends to a process in state u that would end t seconds
\* after SIGTERM
ApptainerExecutor_stop_signals(u, t) ==
  IF u # "live" THEN << >>
  ELSE IF bounded_wait(TRUE, t).ended THEN << "SIGTERM", "wait" >>
  ELSE << "SIGTERM", "wait", "SIGKILL" >>

ApptainerRun ==
  /\ backend = "apptainer"
  /\ \E fails \in BOOLEAN :
       LET run == ApptainerExecutor_run(HandleUnit, fails)
       IN IF run.raised
          THEN /\ last' = Call("run", TRUE, "", << >>)
               /\ UNCHANGED << handle, spawned >>
          ELSE /\ CanLaunch
               /\ handle' = NextUnit
               /\ spawned' = [spawned EXCEPT ![NextUnit] = run.unit]
               /\ last' = Call("run", FALSE, "", << Ev("spawn", NextUnit) >>)
  /\ everRun' = TRUE
  /\ UNCHANGED << wstatus, stop_event, pipeVars >>
  /\ UNCHANGED << backend, offExec >>

ApptainerStop ==
  /\ backend = "apptainer"
  /\ \E t \in ExitDelays :
       LET x == ApptainerExecutor_stop(HandleUnit)
           sigs == ApptainerExecutor_stop_signals(HandleUnit, t)
       IN /\ handle' = IF x.unit = "none" THEN 0 ELSE handle
          /\ spawned' = IF sigs # << >> THEN [spawned EXCEPT ![handle] = "exited"] ELSE spawned
          /\ last' = [Call("stop", x.raised, "", [i \in 1..Len(sigs) |-> Ev(sigs[i], handle)])
                        EXCEPT !.waited = IF sigs # << >>
                                          THEN bounded_wait(TRUE, t).waited ELSE 0,
                               !.ended = sigs # << >> /\ bounded_wait(TRUE, t).ended]
  /\ UNCHANGED << wstatus, stop_event, everRun, pipeVars >>
  /\ UNCHANGED << backend, offExec >>

\* --- SlurmExecutor
SlurmRun ==
  /\ backend = "slurm"
  /\ \E fails \in BOOLEAN :
       LET run == SlurmExecutor_run(HandleUnit, fails)
       IN IF run.raised
          THEN /\ last' = Call("run", TRUE, "", << >>)
               /\ UNCHANGED << handle, spawned >>
          ELSE /\ CanLaunch
               /\ handle' = NextUnit
               /\ spawned' = [spawned EXCEPT ![NextUnit] = run.unit]
               /\ last' = Call("run", FALSE, "", << Ev("sbatch", NextUnit) >>)
  /\ everRun' = TRUE
  /\ UNCHANGED << wstatus, stop_event, pipeVars >>
  /\ UNCHANGED << backend, offExec >>

SlurmStop ==
  /\ backend = "slurm"
  /\ LET x == SlurmExecutor_stop(HandleUnit)
     IN /\ handle' = IF x.unit = "none" THEN 0 ELSE handle
        /\ spawned' = IF x.signal THEN [spawned EXCEPT ![handle] = "exited"] ELSE spawned
        /\ last' = Call("stop", x.raised, "",
                        IF x.signal THEN << Ev("scancel", handle) >> ELSE << >>)
  /\ UNCHANGED << wstatus, stop_event, everRun, pipeVars >>
  /\ UNCHANGED << backend, offExec >>

\* --- WorkloadExecutor
\* _runner_wrapper when the routine returns (ok) or raises
runner_wrapper_ends(ws, ok) ==
  IF ~ok THEN "failed" ELSE IF ws = "running" THEN "finished" ELSE ws

\* stop(): set the event, join(timeout=5) a live worker, drop the thread,
\* "running" becomes "stopped"; the worker that ends during the join has run
\* the end of its wrapper by then. A worker is "completing" when it has read
\* _status == "running" (line 40) and has not yet written "finished" (line 41).
WorkloadExecutor_stop(t) ==
  IF handle = 0
  THEN [events |-> << >>, handle |-> handle, spawned |-> spawned, wstatus |-> wstatus,
        stop_event |-> stop_event, waited |-> 0, returned |-> TRUE, ended |-> FALSE]
  ELSE LET alive == HandleUnit \in {"live", "completing"}
           w == bounded_wait(alive, t)
           ws1 == IF alive /\ w.ended
                  THEN (IF HandleUnit = "completing" THEN "finished"
                        ELSE runner_wrapper_ends(wstatus, TRUE))
                  ELSE wstatus
       IN [events |-> IF alive THEN << Ev("set_event", handle), Ev("join", handle) >>
                      ELSE << Ev("set_event", handle) >>,
           handle |-> 0,
           spawned |-> IF alive /\ w.ended THEN [spawned EXCEPT ![handle] = "exited"]
                       ELSE spawned,
           wstatus |-> IF ws1 = "running" THEN "stopped" ELSE ws1,
           stop_event |-> TRUE,
           waited |-> w.waited,
           returned |-> w.returned,
           ended |-> alive /\ w.ended]

\* a run() that checks only that its payload is a mapping
run_rejects_non_mapping_only(isDict, wt) == ~isDict

\* run(), lines 26-29: the payload is not a dict, or get_workload_runner
\* raises for its missing (NoRef) or unregistered type
WorkloadExecutor_run_rejects(isDict, wt) ==
  IF ~isDict THEN TRUE ELSE wt \notin WORKLOAD_REGISTRY

WorkloadRun ==
  /\ backend = "workload"
  /\ \E isDict \in BOOLEAN, wt \in WORKLOAD_REGISTRY \cup {NoRef, "bogus"}, t \in ExitDelays :
       IF WorkloadExecutor_run_rejects(isDict, wt)
       THEN /\ last' = [Call("run", TRUE, "", << >>)
                          EXCEPT !.payload = [isDict |-> isDict, type |-> wt]]
            /\ UNCHANGED << handle, spawned, wstatus, stop_event >>
       ELSE /\ CanLaunch
            /\ LET st == IF HandleUnit \in {"live", "completing"} THEN WorkloadExecutor_stop(t)
                         ELSE [events |-> << >>, handle |-> handle, spawned |-> spawned,
                               wstatus |-> wstatus, stop_event |-> stop_event,
                               waited |-> 0, returned |-> TRUE, ended |-> FALSE]
               IN /\ wstatus' = "running"
                  /\ stop_event' = FALSE
                  /\ handle' = NextUnit
                  /\ spawned' = [st.spawned EXCEPT ![NextUnit] = "live"]
                  /\ last' = [Call("run", FALSE, "",
                                   Append(st.events, Ev("start_thread", NextUnit)))
                                EXCEPT !.waited = st.waited, !.ended = st.ended,
                                       !.payload = [isDict |-> isDict, type |-> wt]]
  /\ everRun' = TRUE
  /\ UNCHANGED << backend, pipeVars, offExec >>

WorkloadStop ==
  /\ backend = "workload"
  /\ \E t \in ExitDelays :
       LET st == WorkloadExecutor_stop(t)
       IN /\ handle' = st.handle
          /\ spawned' = st.spawned
          /\ wstatus' = st.wstatus
          /\ stop_event' = st.stop_event
          /\ last' = [Call("stop", FALSE, "", st.events)
                        EXCEPT !.waited = st.waited, !.returned = st.returned,
                               !.ended = st.ended]
  /\ UNCHANGED << everRun, pipeVars >>
  /\ UNCHANGED << backend, offExec >>

WorkloadExecutor_status(ws) == ws

\* --- status() of the instance; the squeue query may fail
ExecutorStatus ==
  /\ backend \in Backends
  /\ \E qf \in BOOLEAN :
       /\ qf => backend = "slurm" /\ handle # 0
       /\ last' = [Call("status", FALSE,
                        IF backend = "workload" THEN WorkloadExecutor_status(wstatus)
                        ELSE executor_status(backend, HandleUnit, qf),
                        << >>)
                     EXCEPT !.queryFailed = qf]
  /\ UNCHANGED << handle, spawned, wstatus, stop_event, everRun, pipeVars >>
  /\ UNCHANGED << backend, offExec >>

\* --- the units
\* a process exits, a job is scheduled, drains and leaves the queue
UnitProgress ==
  /\ backend \in {"process", "apptainer", "slurm"}
  /\ \E k \in LiveUnits :
       /\ (backend = "process" /\ k = Piped) => blocked = "none"
       /\ spawned' = [spawned EXCEPT ![k] =
                     IF backend = "slurm"
                     THEN (CASE spawned[k] = "pending" -> "live"
                             [] spawned[k] = "live" -> "completing"
                             [] OTHER -> "exited")
                     ELSE "exited"]
  /\ UNCHANGED << backend, handle, wstatus, stop_event, everRun, last, pipeVars >>
  /\ UNCHANGED offExec

\* the routine of a worker thread returns or raises (lines 39-46): a thread
\* whose routine returned and that read _status == "running" has yet to write
\* "finished"; any other thread runs its wrapper to the end
WorkerEnds ==
  /\ backend = "workload"
  /\ \E k \in LiveUnits, ok \in BOOLEAN :
       /\ spawned[k] = "live"
       /\ IF ok /\ wstatus = "running"
          THEN /\ spawned' = [spawned EXCEPT ![k] = "completing"]
               /\ UNCHANGED << wstatus, stop_event >>
          ELSE /\ spawned' = [spawned EXCEPT ![k] = "exited"]
               /\ wstatus' = runner_wrapper_ends(wstatus, ok)
               /\ stop_event' = TRUE
  /\ UNCHANGED << backend, handle, everRun, last, pipeVars >>
  /\ UNCHANGED offExec

\* the thread that read _status == "running" writes "finished" (line 41) and
\* sets the event in its finally block (line 46)
WorkerWritesFinished ==
  /\ backend = "workload"
  /\ \E k \in LiveUnits :
       /\ spawned[k] = "completing"
       /\ spawned' = [spawned EXCEPT ![k] = "exited"]
  /\ wstatus' = "finished"
  /\ stop_event' = TRUE
  /\ UNCHANGED << backend, handle, everRun, last, pipeVars >>
  /\ UNCHANGED offExec

ExecNext ==
  \/ Construct
  \/ ProcessRun
  \/ ProcessStop
  \/ AttachLogger
  \/ ProcessWrites
  \/ ReaderForwards
  \/ ApptainerRun
  \/ ApptainerStop
  \/ SlurmRun
  \/ SlurmStop
  \/ WorkloadRun
  \/ WorkloadStop
  \/ ExecutorStatus
  \/ UnitProgress
  \/ WorkerEnds
  \/ WorkerWritesFinished

ExecSpec == Init /\ [][ExecNext]_vars

\* ================================================= one Server / Client object
\* A string is the sequence of its characters; " " stands for any whitespace
\* character and "x" for any other.
Chars == {" ", "x"}

\* longest string given as a command
MaxText == 2

Texts == UNION { [1..n -> Chars] : n \in 0..MaxText }

RECURSIVE lstrip(_)
lstrip(s) == IF s # << >> /\ Head(s) = " " THEN lstrip(Tail(s)) ELSE s

RECURSIVE rstrip(_)
rstrip(s) ==
  IF s # << >> /\ s[Len(s)] = " " THEN rstrip(SubSeq(s, 1, Len(s) - 1)) ELSE s

\* str.strip()
strip(s) == rstrip(lstrip(s))

\* the "cmd" entry of a dict: the key is absent, or it holds a string
CmdEntries ==
  { [hasCmd |-> FALSE, cmd |-> << >>], [hasCmd |-> TRUE, cmd |-> << >>],
    [hasCmd |-> TRUE, cmd |-> << "x" >>] }

\* the command argument of Server: None, a string, or a dict
ServerCommands ==
  { [kind |-> "none", text |-> << >>, hasCmd |-> FALSE, cmd |-> << >>] }
  \cup { [kind |-> "str", text |-> t, hasCmd |-> FALSE, cmd |-> << >>] : t \in Texts }
  \cup { [kind |-> "dict", text |-> << >>, hasCmd |-> c.hasCmd, cmd |-> c.cmd] :
           c \in CmdEntries }

EmptyDict == [kind |-> "dict", hasType |-> FALSE, hasCmd |-> FALSE, cmd |-> << >>]

\* the workload argument of Client: None, a dict (empty when it has neither
\* "type" nor "cmd") or a non-empty string
ClientWorkloads ==
  { [EmptyDict EXCEPT !.kind = "none"], [EmptyDict EXCEPT !.kind = "str"] }
  \cup { [kind |-> "dict", hasType |-> ht, hasCmd |-> c.hasCmd, cmd |-> c.cmd] :
           ht \in BOOLEAN, c \in CmdEntries }

\* bool(d.get("cmd"))
Truthy(d) == d.hasCmd /\ d.cmd # << >>

\* Client.__init__: self.workload = workload or {}
WorkloadOrEmpty(w) ==
  IF w.kind = "none" THEN EmptyDict ELSE w

\* a resolver that hands on whatever was configured
resolve_command_unchecked(c) == [raised |-> FALSE, payload |-> "command"]

\* Server._resolve_command
Server_resolve_command(c) ==
  IF c.kind = "str" /\ strip(c.text) # << >> THEN [raised |-> FALSE, payload |-> "command"]
  ELSE IF c.kind = "dict" /\ Truthy(c) THEN [raised |-> FALSE, payload |-> "cmd"]
  ELSE [raised |-> TRUE, payload |-> "none"]

\* Client._resolve_payload on self.workload
Client_resolve_payload(t, w) ==
  IF t = "workload"
  THEN IF w = EmptyDict
       THEN [raised |-> TRUE, payload |-> "none"]
       ELSE [raised |-> FALSE, payload |-> "workload"]
  ELSE IF w.kind = "dict" /\ Truthy(w)
       THEN [raised |-> FALSE, payload |-> "cmd"]
       ELSE [raised |-> TRUE, payload |-> "none"]

ExecutorKinds == {"process", "apptainer", "slurm", "None"}

\* Server(id, role, executor, command, monitor, logger)
NewServer ==
  /\ entity.class = "none"
  /\ backend = "none"
  /\ pc = "idle"
  /\ ~loaded
  /\ \E c \in ServerCommands, m \in {NoRef, "m1"}, l \in {NoRef, "l1"}, k \in ExecutorKinds :
       entity' = [NoEntity EXCEPT !.class = "server", !.id = "s1", !.monitor = m,
                                  !.logger = l, !.kind = k, !.command = c]
  /\ UNCHANGED outcome
  /\ UNCHANGED offEntity

\* Client(id, role, executor, monitor, logger, workload, executor_type)
NewClient ==
  /\ entity.class = "none"
  /\ backend = "none"
  /\ pc = "idle"
  /\ ~loaded
  /\ \E w \in ClientWorkloads, t \in {"process", "workload"}, m \in {NoRef, "m1"},
        l \in {NoRef, "l1"}, k \in ExecutorKinds :
       entity' = [NoEntity EXCEPT !.class = "client", !.id = "c1", !.monitor = m,
                                  !.logger = l, !.kind = k, !.executor_type = t,
                                  !.workload = WorkloadOrEmpty(w)]
  /\ UNCHANGED outcome
  /\ UNCHANGED offEntity

\* the rest of start_service / start_workload once the payload is resolved:
\* super().start(payload)
StartWith(op, res, out) ==
  IF res.raised
  THEN [NoOutcome EXCEPT !.op = op, !.error = "ValueError"]
  ELSE LET x == Service_start(NoRecipe, entity, entity.kind, out, outcome.unit,
                              outcome.monActive)
       IN [op |-> op, error |-> IF x.raised THEN "other" ELSE "none",
           payload |-> res.payload, calls |-> x.calls, unit |-> x.unit,
           monActive |-> x.monActive]

\* Server.start_service()
StartService ==
  /\ entity.class = "server"
  /\ outcome.op = "none"
  /\ \E out \in StartOutcomes(NoRecipe, entity, entity.kind) :
       outcome' = StartWith("start_service", Server_resolve_command(entity.command), out)
  /\ UNCHANGED entity
  /\ UNCHANGED offEntity

\* Client.start_workload()
StartWorkload ==
  /\ entity.class = "client"
  /\ outcome.op = "none"
  /\ \E out \in StartOutcomes(NoRecipe, entity, entity.kind) :
       outcome' = StartWith("start_workload",
                            Client_resolve_payload(entity.executor_type, entity.workload), out)
  /\ UNCHANGED entity
  /\ UNCHANGED offEntity

EntityNext ==
  \/ NewServer
  \/ NewClient
  \/ StartService
  \/ StartWorkload

EntitySpec == Init /\ [][EntityNext]_vars

\* ================================================ one workload invocation
\* the configs a recipe can give a routine; max_consecutive_errors and the
\* endpoint are read by vllm-inference only. With two workers a vllm invocation
\* is given a duration alone or one request alone, and an s3 invocation one
\* object per worker.
AllConfigs ==
  [routine : Routines, concurrency : Workers, count : 0..MaxRequests,
   duration_sec : 0..MaxSeconds, max_consecutive_errors : 1..MaxThreshold,
   endpoint : BOOLEAN]

Configs ==
  { c \in AllConfigs :
      /\ c.routine = "s3-upload" => (c.max_consecutive_errors = 1 /\ c.endpoint)
      /\ ~c.endpoint =>
           (c.concurrency = 1 /\ c.count = 0 /\ c.duration_sec = 0
             /\ c.max_consecutive_errors = 1)
      /\ c.concurrency > 1 =>
           /\ c.max_consecutive_errors = 1
           /\ IF c.routine = "vllm-inference"
              THEN << c.count, c.duration_sec >> \in { << 0, 1 >>, << 1, 0 >> }
              ELSE c.count = 1 /\ c.duration_sec = 0 }

IsVllm == cfg.routine = "vllm-inference"

\* vllm: target_requests = total_requests // concurrency if total_requests > 0 else 0;
\* s3: objects_per_thread
target_requests ==
  IF IsVllm
  THEN (IF cfg.count > 0 THEN cfg.count \div cfg.concurrency ELSE 0)
  ELSE cfg.count

\* run(): the shared container is created, the reporter thread (vllm) and the
\* workers are started
EngineRun ==
  /\ runpc = "idle"
  /\ entity.class = "none"
  /\ backend = "none"
  /\ pc = "idle"
  /\ ~loaded
  /\ \E c \in Configs :
       /\ cfg' = c
       /\ wpc' = [w \in Workers |-> IF w <= c.concurrency THEN "top" ELSE "absent"]
       /\ rpc' = IF c.routine = "vllm-inference" THEN "waiting" ELSE "idle"
  /\ runpc' = "workers"
  /\ UNCHANGED << iter, cons, seen, why, local, stats, cancel, clock, reporter_stop,
                  nReports, reported, dupReport, errorVars, final >>
  /\ UNCHANGED offEngine

\* a top of the loop that sets the shared signal when the breaker trips
worker_top_breaker_cancels(w) ==
  IF IsVllm /\ ~cfg.endpoint THEN [why |-> "endpoint", cancel |-> cancel]
  ELSE IF cfg.duration_sec > 0 /\ clock >= cfg.duration_sec
       THEN [why |-> "duration", cancel |-> cancel]
  ELSE IF cfg.duration_sec = 0 /\ (target_requests > 0 \/ ~IsVllm) /\ iter[w] >= target_requests
       THEN [why |-> "count", cancel |-> cancel]
  ELSE IF cancel # "clear" THEN [why |-> "signal", cancel |-> cancel]
  ELSE IF IsVllm /\ cons[w] >= cfg.max_consecutive_errors
       THEN [why |-> "breaker", cancel |-> "worker"]
  ELSE [why |-> "none", cancel |-> cancel]

\* a top of the loop whose breaker trips one failure late
worker_top_late_breaker(w) ==
  IF IsVllm /\ ~cfg.endpoint THEN [why |-> "endpoint", cancel |-> cancel]
  ELSE IF cfg.duration_sec > 0 /\ clock >= cfg.duration_sec
       THEN [why |-> "duration", cancel |-> cancel]
  ELSE IF cfg.duration_sec = 0 /\ (target_requests > 0 \/ ~IsVllm) /\ iter[w] >= target_requests
       THEN [why |-> "count", cancel |-> cancel]
  ELSE IF cancel # "clear" THEN [why |-> "signal", cancel |-> cancel]
  ELSE IF IsVllm /\ cons[w] > cfg.max_consecutive_errors
       THEN [why |-> "breaker", cancel |-> cancel]
  ELSE [why |-> "none", cancel |-> cancel]

\* the stop conditions at the top of the loop, in the order of the code: the
\* condition the worker leaves by ("none": it goes on) and the state of the
\* shared signal afterwards
worker_top(w) ==
  IF IsVllm /\ ~cfg.endpoint THEN [why |-> "endpoint", cancel |-> cancel]
  ELSE IF cfg.duration_sec > 0 /\ clock >= cfg.duration_sec
       THEN [why |-> "duration", cancel |-> cancel]
  ELSE IF cfg.duration_sec = 0 /\ (target_requests > 0 \/ ~IsVllm) /\ iter[w] >= target_requests
       THEN [why |-> "count", cancel |-> cancel]
  ELSE IF cancel # "clear" THEN [why |-> "signal", cancel |-> cancel]
  ELSE IF IsVllm /\ cons[w] >= cfg.max_consecutive_errors
       THEN [why |-> "breaker", cancel |-> cancel]
  ELSE [why |-> "none", cancel |-> cancel]

\* one pass of a worker through the top of its loop: it leaves the loop (an
\* s3 worker then merges its local lists into shared_stats under the lock) or
\* counts the iteration and issues its request
WorkerTop ==
  /\ runpc = "workers"
  /\ \E w \in Workers :
       /\ wpc[w] = "top"
       /\ LET t == worker_top(w)
          IN /\ t.why = "none" => iter[w] < MaxAttempts
             /\ cancel' = t.cancel
             /\ why' = [why EXCEPT ![w] = t.why]
             /\ wpc' = [wpc EXCEPT ![w] = IF t.why = "none" THEN "request" ELSE "done"]
             /\ iter' = [iter EXCEPT ![w] = IF t.why = "none" THEN @ + 1 ELSE @]
             /\ stats' = IF t.why # "none" /\ ~IsVllm
                         THEN [stats EXCEPT !.latencies = @ \o local[w].up,
                                            !.downloads = @ + local[w].down]
                         ELSE stats
  /\ UNCHANGED << cfg, runpc, cons, seen, local, clock, reporterVars, errorVars, final >>
  /\ UNCHANGED offEngine

\* what the network makes of a request
RequestResults ==
  { [kind |-> "ok", lat |-> l] : l \in Lats } \cup { [kind |-> k, lat |-> 0] : k \in ErrorKinds }

Sample(w, l) == [w |-> w, n |-> iter[w], lat |-> l]

\* a failure branch that leaves the kind of the error uncounted
count_failure_without_kind(st, kind) ==
  [st EXCEPT !.failures = @ + 1, !.total_requests = @ + 1]

\* the locked section of every failure branch of the vllm worker: failures,
\* total_requests and the error's entry of error_breakdown go up by one
count_failure(st, kind) ==
  [st EXCEPT !.failures = @ + 1,
             !.total_requests = @ + 1,
             !.error_breakdown[kind] = @ + 1]

\* the POST (vllm) or PUT (s3) of a worker returns or raises
RequestReturns ==
  /\ runpc = "workers"
  /\ \E w \in Workers, res \in RequestResults, doGet \in BOOLEAN :
       /\ wpc[w] = "request"
       /\ IF IsVllm
          THEN /\ ~doGet
               /\ IF res.kind = "ok"
                  THEN /\ cons' = [cons EXCEPT ![w] = 0]
                       /\ stats' = [stats EXCEPT !.latencies = Append(@, Sample(w, res.lat)),
                                                 !.total_requests = @ + 1]
                       /\ wpc' = [wpc EXCEPT ![w] = "top"]
                       /\ streak' = [streak EXCEPT ![w] = 0]
                       /\ UNCHANGED << seen, failed, owed, logged >>
                  ELSE /\ cons' = [cons EXCEPT ![w] = @ + 1]
                       /\ stats' = count_failure(stats, res.kind)
                       /\ seen' = [seen EXCEPT ![w] = @ \cup {res.kind}]
                       /\ wpc' = [wpc EXCEPT ![w] = "backoff"]
                       /\ streak' = [streak EXCEPT ![w] = @ + 1]
                       /\ failed' = [failed EXCEPT ![res.kind] = @ + 1]
                       /\ logged' = [logged EXCEPT ![w][res.kind] =
                                       IF res.kind \in seen[w] THEN @ ELSE @ + 1]
                       /\ UNCHANGED owed
               /\ UNCHANGED local
          ELSE /\ local' = IF res.kind = "ok"
                           THEN [local EXCEPT ![w].up = Append(@, Sample(w, res.lat))]
                           ELSE local
               /\ doGet => local'[w].up # << >>
               /\ wpc' = [wpc EXCEPT ![w] = IF doGet THEN "get" ELSE "top"]
               /\ streak' = [streak EXCEPT ![w] = IF res.kind = "ok" THEN 0 ELSE @ + 1]
               /\ failed' = IF res.kind = "ok" THEN failed
                            ELSE [failed EXCEPT ![res.kind] = @ + 1]
               /\ owed' = [owed EXCEPT ![w] = res.kind # "ok"]
               /\ UNCHANGED << cons, seen, stats, logged >>
  /\ UNCHANGED << cfg, runpc, iter, why, cancel, clock, reporterVars, final >>
  /\ UNCHANGED offEngine

\* the GET of an s3 worker returns or raises
GetReturns ==
  /\ runpc = "workers"
  /\ \E w \in Workers, k \in {"ok"} \cup ErrorKinds :
       /\ wpc[w] = "get"
       /\ wpc' = [wpc EXCEPT ![w] = "top"]
       /\ local' = IF k = "ok" THEN [local EXCEPT ![w].down = @ + 1] ELSE local
       /\ failed' = IF k = "ok" THEN failed ELSE [failed EXCEPT ![k] = @ + 1]
       /\ owed' = [owed EXCEPT ![w] = k # "ok"]
  /\ UNCHANGED << cfg, runpc, iter, cons, seen, why, stats, cancel, clock, reporterVars,
                  logged, streak, final >>
  /\ UNCHANGED offEngine

\* time.sleep(error_backoff_sec) of a vllm worker ends
BackoffEnds ==
  /\ runpc = "workers"
  /\ \E w \in Workers :
       /\ wpc[w] = "backoff"
       /\ wpc' = [wpc EXCEPT ![w] = "top"]
  /\ UNCHANGED << cfg, runpc, iter, cons, seen, why, local, stats, cancel, clock,
                  reporterVars, errorVars, final >>
  /\ UNCHANGED offEngine

\* reporter_stop.wait(timeout=stats_interval) returns and the reporter checks
\* the event: it leaves its loop, or goes on to its locked section
ReporterWakes ==
  /\ rpc = "waiting"
  /\ ~reporter_stop => nReports < MaxReports
  /\ rpc' = IF reporter_stop THEN "done" ELSE "checked"
  /\ UNCHANGED << cfg, runpc, workerVars, stats, cancel, clock, reporter_stop, nReports,
                  reported, dupReport, errorVars, final >>
  /\ UNCHANGED offEngine

SampleIds(seq) == { << seq[i].w, seq[i].n >> : i \in 1..Len(seq) }

\* the reporter's locked section: the samples since the last snapshot are
\* taken and the markers advanced; the report is computed and logged
ReporterReports ==
  /\ rpc = "checked"
  /\ LET current_latencies == Len(stats.latencies)
         recent_latencies == SubSeq(stats.latencies, stats.snap_len + 1, current_latencies)
     IN /\ stats' = [stats EXCEPT !.snap_requests = stats.total_requests,
                                  !.snap_len = current_latencies]
        /\ dupReport' = (dupReport \/ SampleIds(recent_latencies) \cap reported # {})
        /\ reported' = reported \cup SampleIds(recent_latencies)
  /\ nReports' = nReports + 1
  /\ rpc' = "waiting"
  /\ UNCHANGED << cfg, runpc, workerVars, cancel, clock, reporter_stop, errorVars, final >>
  /\ UNCHANGED offEngine

AllWorkersDone == \A w \in Workers : wpc[w] \in {"absent", "done"}

\* concurrent.futures.wait(futures) returns and the pool is left; vllm:
\* reporter_stop.set()
WorkersDone ==
  /\ runpc = "workers"
  /\ AllWorkersDone
  /\ runpc' = IF IsVllm THEN "joining" ELSE "aggregating"
  /\ reporter_stop' = IsVllm
  /\ UNCHANGED << cfg, workerVars, stats, cancel, clock, rpc, nReports, reported,
                  dupReport, errorVars, final >>
  /\ UNCHANGED offEngine

\* reporter_thread.join(timeout=2) returns: the reporter has ended, or the two
\* seconds have passed
JoinReturns ==
  /\ runpc = "joining"
  /\ runpc' = "aggregating"
  /\ final' = [final EXCEPT !.joined = (rpc = "done")]
  /\ UNCHANGED << cfg, workerVars, stats, cancel, clock, reporterVars, errorVars >>
  /\ UNCHANGED offEngine

\* list.sort() of samples by latency
RECURSIVE sorted_upto(_, _)
sorted_upto(seq, v) ==
  IF v = 0 THEN << >>
  ELSE sorted_upto(seq, v - 1) \o SelectSeq(seq, LAMBDA x : x.lat = v)

\* the final aggregation: shared_stats is read without the lock and the
\* latencies list is sorted in place
Aggregate ==
  /\ runpc = "aggregating"
  /\ final' = [final EXCEPT !.completed = Len(stats.latencies),
                            !.attempts = stats.total_requests,
                            !.failures = stats.failures]
  /\ stats' = [stats EXCEPT !.latencies = sorted_upto(@, MaxLatency)]
  /\ runpc' = "returned"
  /\ UNCHANGED << cfg, workerVars, cancel, clock, reporterVars, errorVars >>
  /\ UNCHANGED offEngine

\* a second passes
Tick ==
  /\ runpc = "workers"
  /\ clock < cfg.duration_sec
  /\ clock' = clock + 1
  /\ UNCHANGED << cfg, runpc, workerVars, stats, cancel, reporterVars, errorVars, final >>
  /\ UNCHANGED offEngine

\* the caller of run() sets stop_event (WorkloadExecutor.stop)
SetStopEvent ==
  /\ runpc = "workers"
  /\ cancel = "clear"
  /\ cancel' = "caller"
  /\ UNCHANGED << cfg, runpc, workerVars, stats, clock, reporterVars, errorVars, final >>
  /\ UNCHANGED offEngine

\* run() and its workers; the reporter thread, which takes no part in what the
\* workers do, is left waiting
EngineNext ==
  \/ EngineRun
  \/ WorkerTop
  \/ RequestReturns
  \/ GetReturns
  \/ BackoffEnds
  \/ WorkersDone
  \/ JoinReturns
  \/ Aggregate
  \/ Tick
  \/ SetStopEvent

EngineSpec == Init /\ [][EngineNext]_vars

\* the whole invocation: run(), its workers and the reporter thread
ReporterNext ==
  \/ EngineNext
  \/ ReporterWakes
  \/ ReporterReports

ReporterSpec == Init /\ [][ReporterNext]_vars

\* ===================================================== latency statistics
\* longest list of which every filling is tried, and its largest latency
MaxLen == 3
MaxValue == 2

\* lengths around which the 95th and 99th index leave the last position
LongLens == {19, 20, 21, 40, 99, 100, 101}

\* the latencies n-1 .. 0, rotated by off and reduced modulo m
LongList(n, off, m) == [i \in 1..n |-> ((n - i + off) % n) % m]

LatencyLists ==
  UNION { [1..n -> 0..MaxValue] : n \in 0..MaxLen }
  \cup { LongList(n, off, m) : n \in LongLens, off \in {0, 7}, m \in {3, 200} }

\* list.sort() / sorted(): a stable sort; an element goes behind the smaller
\* elements and behind the equal elements that stood before it
list_sort(s) ==
  LET pos == [i \in 1..Len(s) |->
                1 + Cardinality({ j \in 1..Len(s) : s[j] < s[i] \/ (s[j] = s[i] /\ j < i) })]
  IN [k \in 1..Len(s) |-> s[CHOOSE i \in 1..Len(s) : pos[i] = k]]

RECURSIVE sum(_)
sum(s) ==
  IF s = << >> THEN 0
  ELSE IF Len(s) = 1 THEN s[1]
  ELSE LET h == Len(s) \div 2
       IN sum(SubSeq(s, 1, h)) + sum(SubSeq(s, h + 1, Len(s)))

Min(a, b) == IF a <= b THEN a ELSE b

\* a percentile that indexes the list as it was given
percentile_unsorted(s, num, den) ==
  s[Min((num * Len(s)) \div den, Len(s) - 1) + 1]

\* lats.sort(); idx = int(len(lats) * 0.95); lats[min(idx, len(lats)-1)], for
\* num/den = 95/100 and 99/100 (the product of the length and the float is
\* truncated to the same integer as the exact quotient); Python indexes from 0
percentile(s, num, den) ==
  list_sort(s)[Min((num * Len(s)) \div den, Len(s) - 1) + 1]

\* calc_stats_metrics of run() in s3_upload ("s3") and in vllm_inference
\* ("vllm"), and the interval statistics of periodic_reporter ("reporter");
\* total stands for the mean, stdev is 0.0 when statistics.stdev raises
calc_stats_metrics(fn, s) ==
  IF s = << >>
  THEN [NoMetrics EXCEPT !.done = TRUE]
  ELSE [done |-> TRUE, raised |-> FALSE, total |-> sum(s), stdev_defined |-> Len(s) >= 2,
        p95 |-> percentile(s, 95, 100),
        p99 |-> IF fn = "vllm" THEN percentile(s, 99, 100) ELSE 0]

\* a list of latencies reaches one of the three functions
GiveLatencies ==
  /\ statsFn = "none"
  /\ runpc = "idle"
  /\ entity.class = "none"
  /\ backend = "none"
  /\ pc = "idle"
  /\ ~loaded
  /\ \E fn \in {"s3", "vllm", "reporter"}, s \in LatencyLists :
       /\ statsFn' = fn
       /\ lats' = s
  /\ UNCHANGED metrics
  /\ UNCHANGED offStats

\* the function returns
CalcStats ==
  /\ statsFn # "none"
  /\ ~metrics.done
  /\ metrics' = calc_stats_metrics(statsFn, lats)
  /\ UNCHANGED << statsFn, lats >>
  /\ UNCHANGED offStats

StatsNext ==
  \/ GiveLatencies
  \/ CalcStats

StatsSpec == Init /\ [][StatsNext]_vars

\* ================================================================ claims
LastAction == IF execLog = << >> THEN NoRef ELSE execLog[Len(execLog)]
AllIds == IdsOf(Entities(recipe))
Started == { startInvoked[i] : i \in 1..Len(startInvoked) }
IsPrefix(a, b) == Len(a) <= Len(b) /\ \A i \in 1..Len(a) : a[i] = b[i]
IdSeq(seq) == [i \in 1..Len(seq) |-> seq[i].id]

\* C1: the poll loop is left early only in an iteration in which every client's
\* status is finished, failed or stopped; any other status, and a failing
\* status() call, keeps the loop alive.
C1_EarlyExitOnlyWhenAllTerminal ==
  exitReason = "early" =>
    \A c \in IdsOf(recipe.clients) : observed[c] \in TerminalStatuses

\* C2: when some client has not reached a terminal status the loop is left
\* through the duration bound, between duration and duration + poll_interval
\* seconds after it started.
C2_StuckClientExitsByDuration ==
  (exitReason # "none" /\ liveAtExit # {}) =>
    /\ exitReason = "duration"
    /\ elapsed >= recipe.duration
    /\ elapsed <= recipe.duration + PollInterval(recipe)

\* C3: in every run the recipe's post-actions are executed exactly once, each
\* once and in recipe order, after the poll loop and never during launching.
C3_PostActionsExactlyOnce ==
  /\ IsPrefix(execLog, recipe.post_actions)
  /\ pc \in {"provisioned", "services", "clients", "poll"} => execLog = << >>
  /\ pc \in {"done", "raised"} => execLog = recipe.post_actions

\* C4: stop_services invokes stop on every service and every client whatever
\* subset of the stops fails, and raises nothing itself.
C4_StopServicesReachesAll ==
  stopRound > 0 =>
    /\ stopInvoked = AllIds
    /\ LastAction = "stop_services" => pc # "raised"

\* C4 witness: stop_services ran, the stop of a service (an entity with others
\* after it) failed, and stop was still invoked on every entity.
C4_Witness ==
  /\ stopRound > 0
  /\ stopFailed \cap IdsOf(recipe.services) # {}
  /\ Cardinality(stopFailed) >= 2
  /\ stopInvoked = AllIds

\* the monitors attached to some service or client object
AttachedMonitors(r) ==
  { Entities(r)[i].monitor : i \in { j \in 1..Len(Entities(r)) : HasMonitor(r, Entities(r)[j]) } }

\* C5: collect_metrics calls collect exactly once on every distinct monitor
\* attached to a service or a client.
C5_CollectOncePerMonitor ==
  LastAction = "collect_metrics" =>
    \A m \in AttachedMonitors(recipe) : collects[m] = 1

IdleOrTerminal == TerminalStatuses \cup {"not_started", "no job", "no process"}

\* C6: stop_services twice in a row: neither call raises, after each call every
\* service and client reports a terminal or not-started status, and the second
\* call sends no further termination or cancellation.
C6_StopServicesIdempotent ==
  LastAction = "stop_services" =>
    /\ pc # "raised"
    /\ \A e \in AllIds : executor_status(exKind[e], unit[e], FALSE) \in IdleOrTerminal
    /\ stopRound >= 2 => signalled = {}

\* C7: when the health check of a health-gated service never succeeds, no
\* client is started and the run does not go on to launch clients, poll and
\* complete.
C7_HealthGateBlocksClients ==
  healthDown =>
    /\ Started \cap IdsOf(recipe.clients) = {}
    /\ pc \notin {"clients", "poll", "done"}

\* the lifecycle phase the manager is in
Phase ==
  CASE pc = "idle" -> (IF ~loaded THEN "New"
                       ELSE IF loadResult = "ok" THEN "Validated" ELSE "Loaded")
    [] pc = "provisioned" -> "Provisioned"
    [] pc = "services" -> "ServicesStarting"
    [] pc = "clients" -> "ClientsStarting"
    [] pc = "poll" -> "Polling"
    [] pc \in {"post", "raised"} -> "PostActions"
    [] OTHER -> "Completed"

PhaseRank ==
  CASE Phase = "New" -> 0
    [] Phase = "Loaded" -> 1
    [] Phase = "Validated" -> 2
    [] Phase = "Provisioned" -> 3
    [] Phase = "ServicesStarting" -> 4
    [] Phase = "ClientsStarting" -> 5
    [] Phase = "Polling" -> 6
    [] Phase = "PostActions" -> 7
    [] OTHER -> 8

\* C8: the lifecycle only moves forward through its phases (none re-entered,
\* also across a second run_benchmark call), and starts are invoked one at a
\* time, services in recipe order and before any client.
C8_LifecycleInOrder ==
  [][ /\ PhaseRank' >= PhaseRank
      /\ IsPrefix(startInvoked', IdSeq(Entities(recipe'))) ]_vars

\* C9: for a recipe lacking a required top-level section validation fails and
\* no executor is ever built nor any unit started from it.
C9_NoExecutorForInvalidRecipe ==
  (loaded /\ ~(RequiredSections \subseteq recipe.sections)) =>
    /\ loadResult # "ok"
    /\ \A e \in EntityIds : exKind[e] = "absent"
    /\ launched = {}

\* a missing command, an executor type outside the four, or a workload client
\* whose workload.type is not registered
HasConfigError(r) ==
  \E i \in 1..Len(Entities(r)) :
    LET e == Entities(r)[i]
    IN \/ e.type \notin {"process", "slurm", "apptainer", "workload"}
       \/ e.type # "workload" /\ e.cmd = NoRef
       \/ e.type = "workload" /\ e.workload_type \notin WORKLOAD_REGISTRY

\* C10: a configuration error is raised before any process, job or workload
\* of the run is started.
C10_ConfigErrorBeforeAnyStart ==
  (loaded /\ HasConfigError(recipe)) => launched = {}

\* the normalized status vocabulary
NormalizedStatuses ==
  {"not_started", "pending", "running", "finished", "failed", "stopped", "unknown"}

\* what status() of the instance returns in the current state
StatusNow ==
  IF backend = "workload" THEN WorkloadExecutor_status(wstatus)
  ELSE executor_status(backend, HandleUnit, FALSE)

\* a termination or cancellation of unit k comes before a launch in the events
StopsBeforeLaunch(events, what, k) ==
  \E i, j \in 1..Len(events) :
    /\ i < j
    /\ events[i] = Ev(what, k)
    /\ events[j].ev \in {"spawn", "sbatch", "start_thread"}

\* C11: stop() on an instance of any backend on which run was never called
\* raises nothing, sends no signal or cancellation, leaves the executor state
\* as it was, and status() afterwards is not_started or a terminal value.
C11_StopBeforeRunIsNoOp ==
  (backend \in Backends /\ ~everRun /\ last.op = "stop") =>
    /\ ~last.raised
    /\ last.events = << >>
    /\ handle = 0
    /\ \A k \in 1..MaxUnits : spawned[k] = "unborn"
    /\ wstatus = "not_started"
    /\ ~stop_event
    /\ StatusNow \in {"not_started", "finished", "failed", "stopped"}

\* the part of C11 that does not depend on the status vocabulary
StopBeforeRunChangesNothing ==
  (backend \in Backends /\ ~everRun /\ last.op = "stop") =>
    /\ ~last.raised
    /\ last.events = << >>
    /\ handle = 0
    /\ \A k \in 1..MaxUnits : spawned[k] = "unborn"
    /\ wstatus = "not_started"
    /\ ~stop_event
    /\ StatusNow \in {"not_started", "no process", "no job"}

\* C12: on the Process and the Container executor, run() called while the
\* unit of an earlier run() is still alive stops that unit first and starts
\* the new one only afterwards.
C12_RunStopsLiveUnitFirst ==
  ( /\ backend \in {"process", "apptainer"}
    /\ last.op = "run"
    /\ ~last.raised
    /\ last.handleBefore \in last.liveBefore ) =>
    StopsBeforeLaunch(last.events, "SIGTERM", last.handleBefore)

\* C13: at most one OS process launched by a Process or Container executor
\* instance is alive at any time, whatever the run and stop calls made.
C13_AtMostOneLiveProcess ==
  backend \in {"process", "apptainer"} => Cardinality(LiveUnits) <= 1

\* C14: on the BatchScheduler executor, run() called while a job id is stored
\* cancels that job before submitting, so that every job still queued or
\* running is the one stop() would cancel; stop() issues exactly one
\* cancellation, for the stored id, and clears it.
C14_ResubmitCancelsStoredJob ==
  backend = "slurm" =>
    /\ (last.op = "run" /\ ~last.raised /\ last.handleBefore # 0) =>
         StopsBeforeLaunch(last.events, "scancel", last.handleBefore)
    /\ \A k \in LiveUnits : k = handle
    /\ (last.op = "stop" /\ last.handleBefore # 0) =>
         /\ last.events = << Ev("scancel", last.handleBefore) >>
         /\ handle = 0

\* C15: every value status() returns, on every backend and in every state,
\* is one of not_started, pending, running, finished, failed, stopped, unknown.
C15_StatusIsNormalized ==
  (last.op = "status" /\ ~last.raised) => last.ret \in NormalizedStatuses

\* C16: status() never raises: when the scheduler query fails or the service
\* has no executor the result is unknown, and Service.status() propagates no
\* failure to the poll loop.
C16_StatusNeverRaises ==
  pc = "poll" =>
    \A i \in 1..Len(recipe.clients) :
      LET c == recipe.clients[i]
          queried == exKind[c.id] = "slurm" /\ unit[c.id] # "none"
      IN /\ Service_status(recipe, c, exKind[c.id], unit[c.id], "ok") # "EXC"
         /\ queried => Service_status(recipe, c, exKind[c.id], unit[c.id], "query_fails")
                         = "unknown"

HasEvent(events, what) == \E i \in 1..Len(events) : events[i].ev = what

\* C17: Container executor stop() on a live process sends the graceful
\* termination first and the forced kill only after the 5-second wait, only
\* when the process did not exit within it; afterwards the executor tracks no
\* process.
C17_GracefulThenForced ==
  (backend = "apptainer" /\ last.op = "stop") =>
    /\ handle = 0
    /\ last.handleBefore \in last.liveBefore =>
         /\ last.events # << >>
         /\ last.events[1] = Ev("SIGTERM", last.handleBefore)
         /\ \A i \in 1..Len(last.events) :
              last.events[i].ev = "SIGKILL" =>
                /\ i > 1
                /\ last.events[i - 1].ev = "wait"
                /\ last.waited = GraceSeconds
                /\ ~last.ended
         /\ last.ended => ~HasEvent(last.events, "SIGKILL")

\* C17 witness: a stop() of a live container process that outlasted the grace
\* period and was killed after the wait.
C17_Witness ==
  /\ backend = "apptainer"
  /\ last.op = "stop"
  /\ last.handleBefore \in last.liveBefore
  /\ ~last.ended
  /\ last.events = << Ev("SIGTERM", last.handleBefore), Ev("wait", last.handleBefore),
                      Ev("SIGKILL", last.handleBefore) >>

\* C18: InProcessWorkload stop() always returns: it sets the cancellation
\* signal first, waits for the worker at most 5 seconds, and detaches from a
\* worker that has not ended without killing it.
C18_WorkloadStopBounded ==
  (backend = "workload" /\ last.op = "stop") =>
    /\ last.returned
    /\ last.waited <= GraceSeconds
    /\ handle = 0
    /\ last.handleBefore # 0 =>
         /\ last.events[1] = Ev("set_event", last.handleBefore)
         /\ \A i \in 1..Len(last.events) : last.events[i].ev \in {"set_event", "join"}
    /\ (last.handleBefore \in last.liveBefore /\ ~last.ended) =>
         last.waited = GraceSeconds

\* C18 witness: stop() returned from a worker that ignores the signal: the
\* join lasted the whole bound and the worker, detached, is still alive.
C18_Witness ==
  /\ backend = "workload"
  /\ last.op = "stop"
  /\ last.returned
  /\ last.handleBefore \in last.liveBefore
  /\ ~last.ended
  /\ last.waited = GraceSeconds
  /\ handle = 0
  /\ spawned[last.handleBefore] = "live"

\* C19: a failure of a single component never aborts the orchestration: when
\* Service.start raised for some service or client, run_benchmark has still
\* invoked start on every service and client, run the poll loop and executed
\* the post-actions when it ends.
C19_StartFailureDoesNotAbort ==
  (startErr # {} /\ pc \in {"done", "raised"} /\ runs > 0) =>
    /\ Started = AllIds
    /\ exitReason # "none"
    /\ execLog = recipe.post_actions
    /\ pc = "done"

\* the part of C19 up to the post-actions
StartFailureReachesPostActions ==
  (startErr # {} /\ pc \in {"post", "done", "raised"} /\ runs > 0) =>
    /\ Started = AllIds
    /\ exitReason # "none"

EntityOf(r, id) == CHOOSE e \in { Entities(r)[i] : i \in 1..Len(Entities(r)) } : e.id = id
LastStarted == EntityOf(recipe, startInvoked[Len(startInvoked)])
InCalls(c) == \E i \in 1..Len(startCalls) : startCalls[i] = c

CallRank(c) ==
  CASE c = "log:starting" -> 1
    [] c = "monitor.start" -> 2
    [] c = "executor.run" -> 3
    [] OTHER -> 4

\* C20: Service.start logs the start, starts the monitor if there is one,
\* invokes executor.run and logs the success, in that order; the success is
\* logged only when executor.run returned without failure, and executor.run
\* is never invoked before monitor.start.
C20_StartSequence ==
  startInvoked # << >> =>
    /\ \A i, j \in 1..Len(startCalls) :
         i < j => CallRank(startCalls[i]) < CallRank(startCalls[j])
    /\ HasLogger(recipe, LastStarted) =>
         startCalls # << >> /\ startCalls[1] = "log:starting"
    /\ (InCalls("executor.run") /\ HasMonitor(recipe, LastStarted)) =>
         InCalls("monitor.start")
    /\ InCalls("log:started") =>
         InCalls("executor.run") /\ LastStarted.id \in launched

\* C20 witness: the start of an entity with logger and monitor went through
\* all four steps.
C20_Witness ==
  /\ startInvoked # << >>
  /\ startCalls = << "log:starting", "monitor.start", "executor.run", "log:started" >>
  /\ LastStarted.id \in launched

\* the position of call c of entity id in the calls of the last stop_services,
\* 0 when it was not made
StopCallAt(id, c) ==
  IF \E i \in 1..Len(stopCalls) : stopCalls[i] = << id, c >>
  THEN CHOOSE i \in 1..Len(stopCalls) : stopCalls[i] = << id, c >>
  ELSE 0

ExecutorStopAt(id) ==
  IF StopCallAt(id, "executor.stop") > 0 THEN StopCallAt(id, "executor.stop")
  ELSE StopCallAt(id, "executor.stop:raised")

\* C21: Service.stop() calls executor.stop() and then monitor.stop() when a
\* monitor is present; a failure of executor.stop() reaches no caller and does
\* not keep monitor.stop() from being called.
C21_StopReachesMonitor ==
  stopRound > 0 =>
    /\ LastAction = "stop_services" => pc # "raised"
    /\ \A i \in 1..Len(Entities(recipe)) :
         LET e == Entities(recipe)[i]
         IN /\ (ExecutorStopAt(e.id) > 0 /\ HasMonitor(recipe, e)) =>
                 StopCallAt(e.id, "monitor.stop") > ExecutorStopAt(e.id)
            /\ StopCallAt(e.id, "monitor.stop") > 0 => ExecutorStopAt(e.id) > 0

\* C21 witness: executor.stop() failed for an entity with a monitor and
\* monitor.stop() was called after it.
C21_Witness ==
  /\ stopRound > 0
  /\ pc # "raised"
  /\ \E i \in 1..Len(Entities(recipe)) :
       LET id == Entities(recipe)[i].id
       IN /\ StopCallAt(id, "executor.stop:raised") > 0
          /\ StopCallAt(id, "monitor.stop") > StopCallAt(id, "executor.stop:raised")

\* the configuration cases of C22, read off the constructor arguments
CommandMissing ==
  /\ entity.class = "server"
  /\ \/ entity.command.kind = "none"
     \/ entity.command.kind = "str" /\ entity.command.text = << >>

WorkloadMissing ==
  /\ entity.class = "client"
  /\ entity.executor_type = "workload"
  /\ entity.workload.kind = "dict"
  /\ ~entity.workload.hasType
  /\ ~entity.workload.hasCmd

ClientCommandMissing ==
  /\ entity.class = "client"
  /\ entity.executor_type # "workload"
  /\ entity.workload.kind = "dict" =>
       (~entity.workload.hasCmd \/ entity.workload.cmd = << >>)

StartMade == outcome.op # "none"

\* C22: start_service on a Server with an empty or missing command,
\* start_workload on a workload-typed Client without workload configuration and
\* start_workload on any other Client without command each end with the
\* configuration error, and neither monitor.start nor executor.run was called.
C22_ConfigErrorBeforeLaunch ==
  (StartMade /\ (CommandMissing \/ WorkloadMissing \/ ClientCommandMissing)) =>
    /\ outcome.error = "ValueError"
    /\ \A i \in 1..Len(outcome.calls) : outcome.calls[i] \notin {"monitor.start", "executor.run"}
    /\ outcome.unit = "none"
    /\ \A m \in MonitorIds : ~outcome.monActive[m]

\* C22 witness: a Server with monitor, logger and executor and an empty command
\* was started and the start ended with the configuration error.
C22_Witness ==
  /\ StartMade
  /\ CommandMissing
  /\ entity.monitor = "m1"
  /\ entity.logger = "l1"
  /\ entity.kind = "process"
  /\ outcome.error = "ValueError"

\* a termination condition of the worker holds: its count is configured and
\* reached, its duration is configured and elapsed, the signal is set, or its
\* consecutive errors have reached the configured maximum
StopConditionHolds(w) ==
  \/ cfg.count > 0 /\ iter[w] >= target_requests
  \/ cfg.duration_sec > 0 /\ clock >= cfg.duration_sec
  \/ cancel # "clear"
  \/ IsVllm /\ cons[w] >= cfg.max_consecutive_errors

\* C23: a worker at the top of its loop for which a termination condition
\* holds (count reached, duration elapsed, signal set, consecutive errors at
\* the maximum) does not start another iteration, also when both a count and a
\* duration are configured and only the count is reached.
C23_WorkerStopsOnAnyCondition ==
  [][\A w \in Workers :
       (wpc[w] = "top" /\ wpc'[w] = "request") => ~StopConditionHolds(w)]_vars

OwnCondition(v) ==
  CASE why[v] = "count"    -> iter[v] >= target_requests
    [] why[v] = "duration" -> clock >= cfg.duration_sec
    [] why[v] = "signal"   -> cancel = "caller"
    [] why[v] = "breaker"  -> cons[v] >= cfg.max_consecutive_errors
    [] why[v] = "endpoint" -> ~cfg.endpoint
    [] OTHER               -> FALSE

BreakerLeavesOthersAlone ==
  \A w \in Workers :
    (why[w] = "none" /\ why'[w] = "breaker") =>
      /\ cancel' = cancel
      /\ stats' = stats
      /\ \A v \in Workers \ {w} :
           wpc'[v] = wpc[v] /\ iter'[v] = iter[v] /\ cons'[v] = cons[v] /\ why'[v] = why[v]

BreakerStateOk ==
  \A w \in Workers :
    why[w] = "breaker" =>
      /\ cancel # "worker"
      /\ \A v \in Workers \ {w} : wpc[v] = "done" => OwnCondition(v)
      /\ runpc = "returned" => final.attempts = stats.total_requests

\* C25: a worker leaving through the consecutive-error threshold does not set
\* the shared signal and changes nothing of another worker; the other workers
\* end by their own conditions and run() returns with its aggregation.
C25_BreakerStopsOnlyItself ==
  []BreakerStateOk /\ [][BreakerLeavesOthersAlone]_vars

\* C25 witness: one worker was stopped by the breaker, the other one went on,
\* completed a request and left by the duration, and run() has returned
\* with the signal never set.
C25_Witness ==
  /\ runpc = "returned"
  /\ cancel = "clear"
  /\ why[1] = "breaker"
  /\ why[2] = "duration"
  /\ \E i \in 1..Len(stats.latencies) : stats.latencies[i].w = 2

\* C26: once the shared signal is set no worker starts a network operation
\* and no worker begins a back-off sleep.
C26_NoNewWorkAfterSignal ==
  [][cancel # "clear" =>
       \A w \in Workers :
         wpc'[w] \in {"request", "get", "backoff"} => wpc'[w] = wpc[w]]_vars

\* C27: in both routines every failed network operation is counted in the
\* shared aggregate under its kind, a worker starts no operation while a failed
\* one is not yet followed by a back-off sleep, and no worker logs one kind
\* twice.
C27_FailuresCountedBackedOffLoggedOnce ==
  /\ \A k \in ErrorKinds : stats.error_breakdown[k] = failed[k]
  /\ \A w \in Workers : wpc[w] \in {"request", "get"} => ~owed[w]
  /\ \A w \in Workers, k \in ErrorKinds : logged[w][k] <= 1

\* C28: the final aggregation of run(), which reads and sorts the shared
\* aggregate without the lock, runs only when no other task can still touch
\* the aggregate.
C28_AggregateAccessIsExclusive ==
  runpc = "aggregating" => rpc # "checked"

\* C29: no latency sample is part of two interval reports, and the snapshot
\* markers never exceed the length of the latencies and the request total.
C29_ReportsPartitionSamples ==
  /\ ~dupReport
  /\ stats.snap_len <= Len(stats.latencies)
  /\ stats.snap_requests <= stats.total_requests

\* r stands at position k (from 0) of the ascending arrangement of s: it is an
\* element of s, at most k elements are smaller and more than k are not larger
AtSortedIndex(s, k, r) ==
  /\ \E i \in 1..Len(s) : s[i] = r
  /\ Cardinality({ i \in 1..Len(s) : s[i] < r }) <= k
  /\ Cardinality({ i \in 1..Len(s) : s[i] <= r }) > k

\* floor(p * n) clamped to n - 1, p = pct / 100
ClampedIndex(n, pct) ==
  LET f == CHOOSE q \in 0..n : q * 100 <= pct * n /\ (q + 1) * 100 > pct * n
  IN IF f <= n - 1 THEN f ELSE n - 1

\* C30: for a list of n >= 1 latencies the p95 returned (and the p99 of the
\* final inference statistics) is the element at index min(floor(p*n), n-1) of
\* the ascending list; for n = 0 every statistic is 0 and nothing is raised.
C30_PercentileIndex ==
  metrics.done =>
    /\ ~metrics.raised
    /\ Len(lats) = 0 =>
         (metrics.total = 0 /\ ~metrics.stdev_defined /\ metrics.p95 = 0 /\ metrics.p99 = 0)
    /\ Len(lats) >= 1 =>
         /\ AtSortedIndex(lats, ClampedIndex(Len(lats), 95), metrics.p95)
         /\ statsFn = "vllm" =>
              AtSortedIndex(lats, ClampedIndex(Len(lats), 99), metrics.p99)

\* C30 witness: the final inference statistics of 101 latencies given out of
\* order, whose p95 and p99 are neither the largest latency nor each other.
C30_Witness ==
  /\ metrics.done
  /\ statsFn = "vllm"
  /\ Len(lats) = 101
  /\ lats # list_sort(lats)
  /\ metrics.p95 = 95
  /\ metrics.p99 = 99

\* ----------------------------------------------------------------- C31
\* shared_stats['total_objects'] of an s3 invocation: every worker appends to
\* local_uploaded_objects and to local_upload_latencies together and merges
\* both, so it is the length of the merged upload latencies
total_objects == Len(stats.latencies)

NoOperationFailed == \A k \in ErrorKinds : failed[k] = 0

\* C31: an s3-upload invocation configured with objects: N and limited by
\* that count, on which no operation failed and which nobody cancelled, has
\* returned with exactly N objects uploaded in total, whatever its concurrency.
C31_UploadsExactlyN ==
  (/\ runpc = "returned"
   /\ cfg.routine = "s3-upload"
   /\ cfg.duration_sec = 0
   /\ NoOperationFailed
   /\ cancel = "clear")
    => total_objects = cfg.count

\* ----------------------------------------------------------------- C32
\* C32: the output streaming never stalls the launched process: whenever the
\* process is blocked writing a line to stdout or stderr, a reader thread of
\* that stream is running and will take a line out of the pipe, whether or not
\* a logger was attached when run() was called.
C32_OutputNeverBlocksProcess ==
  (backend = "process" /\ blocked # "none") => blocked \in readers

\* ----------------------------------------------------------------- C33
\* the keys of _services_objs and of _clients_objs
HeldIds == { e \in EntityIds : exKind[e] # "absent" }

\* C33: once run_benchmark on a validated recipe has returned, the manager
\* holds a Service object under every service id and every client id of the
\* recipe and under no other id, whether or not starts failed and whichever
\* post-actions ran.
C33_ObjectsForEveryId ==
  (pc = "done" /\ loadResult = "ok")
    => HeldIds = IdsOf(recipe.services) \cup IdsOf(recipe.clients)

\* a run that returned after a failed start and a stop_services, with objects
\* held for services and for clients
C33_Witness ==
  /\ pc = "done"
  /\ loadResult = "ok"
  /\ startErr # {}
  /\ stopRound > 0
  /\ HeldIds \cap ClientIds # {}
  /\ HeldIds \ ClientIds # {}
  /\ HeldIds = AllIds

\* ----------------------------------------------------------------- C34
\* worker threads stop() gave up on: still running, no longer self._thread
Abandoned == { k \in LiveUnits : k # handle }

\* a step in which an abandoned worker thread exits while a later run's
\* thread is tracked and alive
AbandonedExits ==
  /\ backend = "workload"
  /\ handle # 0
  /\ handle' = handle
  /\ spawned[handle] = "live"
  /\ spawned'[handle] = "live"
  /\ \E k \in Abandoned : spawned'[k] = "exited"

\* C34: a worker thread abandoned by stop() never affects a later run on the
\* same executor: as long as it runs, the cancellation signal it watches stays
\* raised, so it does not resume work; and while a later run's thread is alive
\* the exit of the abandoned thread changes neither the status nor the
\* cancellation signal of that run.
C34_AbandonedWorkerIsIsolated ==
  /\ []((backend = "workload" /\ Abandoned # {}) => stop_event)
  /\ [][AbandonedExits => (wstatus' = wstatus /\ stop_event' = stop_event)]_vars

\* ----------------------------------------------------------------- C35
WorkloadStatuses == {"not_started", "running", "finished", "failed", "stopped"}

\* C35: the status of a WorkloadExecutor is always one of not_started,
\* running, finished, failed, stopped; once stop() has returned on a started
\* executor the status is not running; and a status of stopped is never
\* replaced by finished when the worker thread eventually returns.
C35_StatusAfterStop ==
  /\ [](backend = "workload" => wstatus \in WorkloadStatuses)
  /\ []((backend = "workload" /\ everRun /\ last.op = "stop") => wstatus # "running")
  /\ [][(backend = "workload" /\ wstatus = "stopped") => wstatus' # "finished"]_vars

\* ----------------------------------------------------------------- C36
RECURSIVE SumOfCounts(_, _)
SumOfCounts(eb, kinds) ==
  IF kinds = {} THEN 0
  ELSE LET k == CHOOSE x \in kinds : TRUE
       IN eb[k] + SumOfCounts(eb, kinds \ {k})

CountersGrow ==
  /\ stats'.total_requests >= stats.total_requests
  /\ Len(stats'.latencies) >= Len(stats.latencies)
  /\ stats'.failures >= stats.failures
  /\ \A k \in ErrorKinds : stats'.error_breakdown[k] >= stats.error_breakdown[k]

\* C36: in every state of a vllm-inference invocation total_requests is the
\* number of recorded latencies plus the failure count, the counts of
\* error_breakdown add up to the failure count, and no step lowers any of them.
C36_CountersConsistent ==
  /\ [](IsVllm =>
          /\ stats.total_requests = Len(stats.latencies) + stats.failures
          /\ SumOfCounts(stats.error_breakdown, ErrorKinds) = stats.failures)
  /\ [][IsVllm => CountersGrow]_vars

\* an invocation that recorded a latency and, after it, a failure
C36_Witness ==
  /\ IsVllm
  /\ Len(stats.latencies) > 0
  /\ stats.failures > 0
  /\ stats.total_requests = 2
  /\ \E k \in ErrorKinds : stats.error_breakdown[k] = 1

\* ----------------------------------------------------------------- C37
\* requests attempted by all workers: every worker counts an attempt (i += 1)
\* before it sends its request
TotalAttempted == iter[1] + iter[2]

\* C37: in a vllm-inference invocation with requests = R > 0 and
\* duration_sec = 0 the workers together never attempt more than R requests,
\* whatever the concurrency: every worker stops at its share of R.
C37_AttemptsWithinRequests ==
  (IsVllm /\ cfg.endpoint /\ cfg.count > 0 /\ cfg.duration_sec = 0)
    => TotalAttempted <= cfg.count

\* ----------------------------------------------------------------- C38
\* C38: once the stop_services post-action has completed, every monitor that
\* was started during the run, by start_monitors or by a Service.start, has
\* been stopped, the monitors no service or client refers to included.
C38_MonitorsStoppedAfterStopServices ==
  (loadResult = "ok" /\ LastAction = "stop_services")
    => \A m \in MonitorIds : ~monActive[m]

\* ----------------------------------------------------------------- C39
HasExecutor(id) == exKind[id] \notin {"absent", "None"}

\* C39: whatever the attached logger does, Service.start() reaches
\* executor.run() and Service.stop() reaches executor.stop(): a logger.log that
\* raises neither keeps a unit from being launched nor leaves one unstopped
\* during teardown.
C39_LoggerFailureDoesNotSkipExecutor ==
  /\ (startInvoked # << >> /\ HasExecutor(LastStarted.id)) => InCalls("executor.run")
  /\ stopRound > 0 =>
       \A id \in stopInvoked : HasExecutor(id) => ExecutorStopAt(id) > 0

\* ----------------------------------------------------------------- C40
\* the payload of the last run() is no mapping, or its type is missing or not
\* in the registry
BadPayload == ~last.payload.isDict \/ last.payload.type \notin WORKLOAD_REGISTRY

\* a step that is a run() with such a payload
RunWithBadPayload ==
  /\ backend = "workload"
  /\ last' # last
  /\ last'.op = "run"
  /\ ~last'.payload.isDict \/ last'.payload.type \notin WORKLOAD_REGISTRY

\* C40: WorkloadExecutor.run with a payload that is not a mapping, or whose
\* type is missing or not registered, fails with an error and leaves the
\* executor unchanged: no thread is started, the status and the cancellation
\* signal keep their values, and a workload already running is not stopped.
C40_BadPayloadLeavesExecutorUnchanged ==
  [][RunWithBadPayload =>
       /\ last'.raised
       /\ last'.events = << >>
       /\ UNCHANGED << handle, spawned, wstatus, stop_event >>]_vars

\* a run() with a bad payload failed while a workload was running, and the
\* workload is still running with its signal clear
C40_Witness ==
  /\ backend = "workload"
  /\ last.op = "run"
  /\ last.raised
  /\ BadPayload
  /\ last.payload.isDict
  /\ last.handleBefore # 0
  /\ handle = last.handleBefore
  /\ HandleUnit = "live"
  /\ wstatus = "running"
  /\ ~stop_event

====
